---- MODULE Spec2Model ----
(***************************************************************************)
(* Model of the fenrir connection pool (src/src/database_pool.hpp):        *)
(* database_pool (constructor, acquire, return_connection, maintain,       *)
(* refresh_all, shutdown; waiters parked on cv_) and the RAII lease        *)
(* pooled_connection (construction, move, destruction).                    *)
(*                                                                         *)
(* Every member function of database_pool holds mutex_ from its first      *)
(* statement to its return, except acquire, which releases it only inside  *)
(* cv_.wait_until.  One action therefore models one critical section.      *)
(***************************************************************************)
EXTENDS Integers, Sequences, FiniteSets, TLC

\* ---------------------------------------------------------------- bounds
NumThreads == 2    \* threads calling acquire
NumLeases  == 3    \* pooled_connection objects that can be alive at a time
MaxPool    == 2    \* largest min_connections / max_connections explored
MaxCreated == 2    \* create_connection calls that may succeed in one run
MaxRetries == 2    \* largest max_retries passed to execute_with_retry
NumTxns    == 2    \* database_transaction objects one BEGIN can pass through
NumSavepoints == 2 \* savepoint objects created in one transaction
MaxWrites  == 3    \* statements executed through one transaction
MaxChain   == 4    \* method calls in one query builder chain
MaxCalls   == 3    \* method calls on one dynamic query builder
MaxParams  == 3    \* parameters added to one stored procedure call
MaxResults == 2    \* results the server sends for one command
MaxCommands == 3   \* commands sent on one connection
MaxInt     == 2    \* largest magnitude of an integer query argument
NumConns   == 2    \* database_connection objects of one owner

Threads == 1..NumThreads
\* identities of database_connection objects, in order of creation
ConnIds == 1..MaxCreated
NoConn  == 0       \* std::unique_ptr<database_connection> holding nullptr

VARIABLES
    min_connections,        \* config_.min_connections
    max_connections,        \* config_.max_connections
    validate_on_acquire,    \* config_.validate_on_acquire
    pool_state,             \* "none" before the constructor ran, "running" once it
                            \* returned, "threw" when it raised
    shutdown_,              \* database_pool::shutdown_
    active_connections_,    \* database_pool::active_connections_
    available_connections_, \* database_pool::available_connections_ (FIFO of identities)
    connected,              \* existing connections whose is_connected() is true
    created,                \* number of create_connection calls that succeeded
    creation_failed,        \* a create_connection call of the constructor has thrown
    lease,                  \* the pooled_connection objects alive: how many there
                            \* are with each value of (conn_, returner_)
    unreturned,             \* leases issued by acquire minus return_connection calls
    pc,                     \* per thread: "idle", or where it is inside acquire
    last_acquire,           \* outcome of the acquire call that completed last
    deadline_passed,        \* per thread inside acquire: steady_clock::now() >= deadline
    removed,                \* what the last maintain() call whose result the
                            \* caller kept returned
    \* --- pooled_connection::execute_with_retry, one call on one lease
    max_retries,            \* the argument max_retries
    rt_pc,                  \* "idle" before the call, "try" / "catch" inside the
                            \* loop, "done" after the call
    attempts,               \* the local attempts
    rt_conn,                \* the lease's conn_: "null", "up" (is_connected()) or "down"
    rt_reconnector,         \* the lease's reconnector_ is non-empty
    rt_error,               \* the exception in flight in the catch block, or
                            \* the one that left the call
    invoked,                \* number of times func was invoked
    reconnects,             \* number of try_reconnect calls
    first_failure,          \* how func failed first: "none", "connection" (a
                            \* connection-class failure) or "plain"
    rt_result,              \* how the call ended: "none", "returned" or "raised"
    \* --- one database_connection with a transaction on it
    srv_up,                 \* the connection is valid: is_connected()
    srv_txn,                \* the session's transaction block: "none", "open", or
                            \* "failed" (aborted by an error, until rolled back)
    srv_work,               \* the open block's savepoints and writes, in order
    srv_committed,          \* the writes made durable
    txn,                    \* database_transaction objects: committed_, rolled_back_
    sp,                     \* savepoint objects (name_ is the index): released_, and
                            \* whether RELEASE SAVEPOINT was ever issued for it
    writes,                 \* number of statements executed so far
    sent,                   \* the command the last operation passed to
                            \* database_connection::execute, or NoCmd
    outcome,                \* how the last operation ended
    finalized,              \* number of commit() / rollback() calls that succeeded
    wt_pc,                  \* position inside with_transaction, "none" outside
    wt_error,               \* the failure in flight in with_transaction, then the
                            \* one it raised to its caller
    \* --- the query builders of database_query.hpp
    tq,                     \* a typed_query_builder chain: the State of the
                            \* builder reached, its query_ (a sequence of words),
                            \* the methods accepted so far and the method the
                            \* compiler rejected, if any
    dq,                     \* a database_query: its query_ and the methods called
    \* --- one connection's command in flight (libpq's view of the session)
    pg,                     \* pc: where async_execute is; results: the statuses
                            \* of the results not fetched yet; arrived: how many
                            \* of them the socket has delivered; active: a command
                            \* is in progress (PQgetResult has not returned null
                            \* for it); outcome: how the last call ended;
                            \* commands: calls made so far
    \* --- one query argument on its way into a parameter array
    arg,                    \* of: the class whose to_string is applied; type and
                            \* value of the argument; text: what to_string
                            \* returned, NotYet before the call
    \* --- database_connection objects and the PGconn handles they own
    co,                     \* per object: st ("none" before construction,
                            \* "alive", "gone" after destruction) and conn_
                            \* (a handle, or NullHandle for nullptr)
    hd,                     \* libpq's side: created: the handles PQconnectdb
                            \* returned; ok: those with PQstatus CONNECTION_OK;
                            \* finished: PQfinish calls per handle; last: the
                            \* last operation, the handle it passed to PQexec
                            \* and whether it threw
    \* --- one database_stored_procedure object
    proc                    \* params_: the parameters added, each with its
                            \* direction and value; executed: execute() was
                            \* called with these parameters; placeholders: the
                            \* numbers n of the $n in the text of that call;
                            \* values: the values bound in it

configVars == <<min_connections, max_connections, validate_on_acquire>>
queueVars  == <<active_connections_, available_connections_>>
createVars == <<created, creation_failed>>
retryVars  == <<max_retries, rt_pc, attempts, rt_conn, rt_reconnector, rt_error,
                invoked, reconnects, first_failure, rt_result>>
txnVars    == <<srv_up, srv_txn, srv_work, srv_committed, txn, sp, writes, sent,
                outcome, finalized, wt_pc, wt_error>>
builderVars == <<tq, dq>>
\* the variables of the clients of a connection other than the pool
connVars   == <<co, hd>>
clientVars == <<builderVars, pg, arg, connVars, proc>>
\* the variables of what runs on a leased connection
sessionVars == <<retryVars, txnVars, clientVars>>
poolVars   == <<configVars, pool_state, shutdown_, queueVars, connected, createVars,
                lease, unreturned, pc, last_acquire, deadline_passed, removed>>
\* what an execute_with_retry call leaves alone
notRetryVars == <<poolVars, txnVars, clientVars>>
\* what the operations on a transaction leave alone
notTxnVars == <<poolVars, retryVars, clientVars>>

TxnObjs    == 1..NumTxns
Savepoints == 1..NumSavepoints
\* nothing passed to database_connection::execute
NoCmd      == [cmd |-> "none", arg |-> 0]
vars == <<min_connections, max_connections, validate_on_acquire, pool_state,
          shutdown_, active_connections_, available_connections_, connected,
          created, creation_failed, lease, unreturned, pc, last_acquire,
          deadline_passed, removed, sessionVars>>

\* ---------------------------------------------------------------- helpers
Range(s) == {s[i] : i \in 1..Len(s)}

\* mutant: the test is inverted, the elements outside S are kept
SelectSeq2_Inverted(s, S) == SelectSeq(s, LAMBDA x : x \notin S)

RECURSIVE SelectSeq2(_, _)
\* subsequence of s whose elements are in set S, order kept
SelectSeq2(s, S) ==
    IF s = <<>> THEN <<>>
    ELSE IF Head(s) \in S THEN <<Head(s)>> \o SelectSeq2(Tail(s), S)
         ELSE SelectSeq2(Tail(s), S)

\* the connections k successful create_connection calls return, in order:
\* every database_connection object gets the next unused identity
FreshSeq(k) == [i \in 1..k |-> created + i]

\* the values of a pooled_connection's members conn_ and returner_ (is the
\* std::function non-empty); reconnector_ is not used by any operation modelled
LeaseStates == [conn_ : ConnIds \cup {NoConn}, returner_ : BOOLEAN]
\* pooled_connection() = default
EmptyLease  == [conn_ |-> NoConn, returner_ |-> FALSE]
\* pooled_connection(conn, returner, reconnector) as built by acquire
IssuedLease(c) == [conn_ |-> c, returner_ |-> TRUE]

\* one more, one fewer object in state s among the objects b
Put(b, s)  == [b EXCEPT ![s] = @ + 1]
Drop(b, s) == [b EXCEPT ![s] = @ - 1]
\* the objects alive, one pair per object
LiveLeases == UNION {{s} \X (1..lease[s]) : s \in LeaseStates}

InAcquire   == {"waiting", "woken"}
Outcomes    == {"lease", "timeout", "shutdown", "connerr"}
InAcquireThreads == {t \in Threads : pc[t] \in InAcquire}
\* a new pooled_connection can come to life with room left for the lease of
\* every acquire call in progress
RoomForLease ==
    NumLeases - Cardinality(LiveLeases) > Cardinality(InAcquireThreads)

TypeOK ==
    /\ min_connections \in 0..MaxPool
    /\ max_connections \in 1..MaxPool
    /\ validate_on_acquire \in BOOLEAN
    /\ pool_state \in {"none", "running", "threw"}
    /\ shutdown_ \in BOOLEAN
    /\ active_connections_ \in Nat
    /\ Range(available_connections_) \subseteq ConnIds
    /\ connected \subseteq ConnIds
    /\ created \in 0..MaxCreated
    /\ creation_failed \in BOOLEAN
    /\ lease \in [LeaseStates -> 0..NumLeases]
    /\ unreturned \in Nat
    /\ pc \in [Threads -> {"idle"} \cup InAcquire]
    /\ last_acquire \in {"none"} \cup Outcomes
    /\ deadline_passed \in [Threads -> BOOLEAN]
    /\ removed \in 0..MaxPool

\* no execute_with_retry call is made
RetryIdle ==
    /\ max_retries = 0
    /\ rt_pc = "idle"
    /\ attempts = 0
    /\ rt_conn = "null"
    /\ rt_reconnector = FALSE
    /\ rt_error = "none"
    /\ invoked = 0
    /\ reconnects = 0
    /\ first_failure = "none"
    /\ rt_result = "none"

\* query_state<>: no_query_tag and no flag set
initial_query_state ==
    [query_type |-> "no_query_tag", has_from |-> FALSE, has_where |-> FALSE,
     has_set |-> FALSE, has_values |-> FALSE]

\* typed_query_builder<>(conn) and database_query(conn) with no call made
BuilderIdle ==
    /\ tq = [State |-> initial_query_state, query_ |-> <<>>, chain |-> <<>>,
             args |-> <<>>, rejected |-> ""]
    /\ dq = [query_ |-> <<>>, chain |-> <<>>, args |-> <<>>, wheres |-> 0]

\* a connected session on which no command was sent
AsyncIdle ==
    pg = [pc |-> "idle", results |-> <<>>, arrived |-> 0, active |-> FALSE,
          outcome |-> "none", commands |-> 0]

NotYet  == <<"not yet">>   \* to_string has not been called
NoArg   == <<>>

\* no argument is being converted
ParamIdle == arg = [of |-> "", type |-> "", value |-> NoArg, text |-> NotYet]

ConnObjs   == 1..NumConns
NullHandle == 0    \* PGconn* holding nullptr
NoOp == [op |-> "none", obj |-> 0, src |-> 0, touched |-> NullHandle,
         threw |-> FALSE]

\* no database_connection object has been constructed
ConnIdle ==
    /\ co = [o \in ConnObjs |-> [st |-> "none", conn_ |-> NullHandle]]
    /\ hd = [created |-> {}, ok |-> {}, finished |-> [h \in ConnObjs |-> 0],
             last |-> NoOp]

\* database_stored_procedure(conn, name) with no parameter added
ProcIdle ==
    proc = [params_ |-> <<>>, executed |-> FALSE, placeholders |-> <<>>,
            values |-> <<>>]

\* no client of a connection is at work
ClientIdle == BuilderIdle /\ AsyncIdle /\ ParamIdle /\ ConnIdle /\ ProcIdle

\* a valid connection with no transaction object on it
TxnIdle ==
    /\ srv_up = TRUE
    /\ srv_txn = "none"
    /\ srv_work = <<>>
    /\ srv_committed = {}
    /\ txn = [i \in TxnObjs |-> [st |-> "none", committed_ |-> FALSE,
                                 rolled_back_ |-> FALSE]]
    /\ sp = [n \in Savepoints |-> [st |-> "none", released_ |-> FALSE,
                                   release_issued |-> FALSE]]
    /\ writes = 0
    /\ sent = NoCmd
    /\ outcome = "none"
    /\ finalized = 0
    /\ wt_pc = "none"
    /\ wt_error = "none"

\* no pool is constructed
PoolIdle ==
    /\ max_connections = 1
    /\ min_connections = 0
    /\ validate_on_acquire = TRUE
    /\ pool_state = "none"
    /\ shutdown_ = FALSE
    /\ active_connections_ = 0
    /\ available_connections_ = <<>>
    /\ connected = {}
    /\ created = 0
    /\ creation_failed = FALSE
    /\ lease = [s \in LeaseStates |-> 0]
    /\ unreturned = 0
    /\ pc = [t \in Threads |-> "idle"]
    /\ last_acquire = "none"
    /\ deadline_passed = [t \in Threads |-> FALSE]
    /\ removed = 0

\* a pool_config with min_connections <= or > max_connections, before the
\* constructor runs
Init ==
    /\ RetryIdle
    /\ TxnIdle
    /\ ClientIdle
    /\ max_connections \in 1..MaxPool
    /\ min_connections \in 0..MaxPool
    /\ validate_on_acquire \in BOOLEAN
    /\ pool_state = "none"
    /\ shutdown_ = FALSE
    /\ active_connections_ = 0
    /\ available_connections_ = <<>>
    /\ connected = {}
    /\ created = 0
    /\ creation_failed = FALSE
    /\ lease = [s \in LeaseStates |-> 0]
    /\ unreturned = 0
    /\ pc = [t \in Threads |-> "idle"]
    /\ last_acquire = "none"
    /\ deadline_passed = [t \in Threads |-> FALSE]
    /\ removed = 0

\* ------------------------------------------------- condition variable cv_
\* cv_.notify_one(): unblocks one of the threads waiting on cv_, if there is one
NotifyOne(p, q) ==
    IF \A t \in Threads : p[t] # "waiting"
    THEN q = p
    ELSE \E t \in Threads : p[t] = "waiting" /\ q = [p EXCEPT ![t] = "woken"]

\* mutant: notify_all is left out
NotifyAll_Nobody(p) == p

\* cv_.notify_all(): unblocks every thread waiting on cv_
NotifyAll(p) == [t \in Threads |-> IF p[t] = "waiting" THEN "woken" ELSE p[t]]

\* ------------------------------------------------------------ constructor
\* mutant of the constructor: the catch block rethrows without shutdown()
Construct_NoCleanup ==
    /\ pool_state = "none"
    /\ IF min_connections > max_connections
       THEN /\ pool_state' = "threw"
            /\ UNCHANGED <<shutdown_, available_connections_, connected, createVars>>
       ELSE \E k \in 0..min_connections :
            /\ created + k <= MaxCreated
            /\ created' = created + k
            /\ available_connections_' = FreshSeq(k)
            /\ connected' = Range(FreshSeq(k))
            /\ pool_state' = IF k = min_connections THEN "running" ELSE "threw"
            /\ creation_failed' = (k < min_connections)
            /\ UNCHANGED shutdown_
    /\ UNCHANGED <<configVars, sessionVars, removed, active_connections_, lease, unreturned, pc,
                   last_acquire, deadline_passed>>

\* database_pool(config): k is the number of create_connection calls that
\* succeed before the first one throws (k = min_connections: none throws)
Construct ==
    /\ pool_state = "none"
    /\ IF min_connections > max_connections
       THEN /\ pool_state' = "threw"
            /\ UNCHANGED <<shutdown_, available_connections_, connected, createVars>>
       ELSE \E k \in 0..min_connections :
            /\ created + k <= MaxCreated
            /\ created' = created + k
            /\ IF k = min_connections
               THEN /\ pool_state' = "running"
                    /\ available_connections_' = FreshSeq(k)
                    /\ connected' = Range(FreshSeq(k))
                    /\ UNCHANGED <<shutdown_, creation_failed>>
               ELSE \* catch (const database_error&) { shutdown(); throw; }
                    /\ pool_state' = "threw"
                    /\ shutdown_' = TRUE
                    /\ available_connections_' = <<>>
                    /\ connected' = {}
                    /\ creation_failed' = TRUE
    /\ UNCHANGED <<configVars, sessionVars, removed, active_connections_, lease, unreturned, pc,
                   last_acquire, deadline_passed>>

\* ------------------------------------------------------ return_connection
\* mutant of return_connection: no shutdown_ test
ReturnConnection_NoShutdownCheck(c) ==
    /\ unreturned' = unreturned - 1
    /\ active_connections_' = active_connections_ - 1
    /\ IF c \in connected
       THEN /\ available_connections_' = Append(available_connections_, c)
            /\ connected' = connected
       ELSE /\ available_connections_' = available_connections_
            /\ connected' = connected \ {c}
    /\ NotifyOne(pc, pc')

\* mutant of return_connection: the connection is never put back in the queue
ReturnConnection_Discard(c) ==
    /\ unreturned' = unreturned - 1
    /\ IF shutdown_
       THEN /\ connected' = connected \ {c}
            /\ UNCHANGED <<active_connections_, available_connections_, pc>>
       ELSE /\ active_connections_' = active_connections_ - 1
            /\ available_connections_' = available_connections_
            /\ connected' = connected \ {c}
            /\ NotifyOne(pc, pc')

\* mutant of return_connection: the connection is put back in the queue
\* whether it is connected or not
ReturnConnection_PushAlways(c) ==
    /\ unreturned' = unreturned - 1
    /\ IF shutdown_
       THEN /\ connected' = connected \ {c}
            /\ UNCHANGED <<active_connections_, available_connections_, pc>>
       ELSE /\ active_connections_' = active_connections_ - 1
            /\ available_connections_' = Append(available_connections_, c)
            /\ connected' = connected
            /\ NotifyOne(pc, pc')

\* the return callback a lease invokes with its connection c
ReturnConnection(c) ==
    /\ unreturned' = unreturned - 1
    /\ IF shutdown_
       THEN \* discarded, counters untouched
            /\ connected' = connected \ {c}
            /\ UNCHANGED <<active_connections_, available_connections_, pc>>
       ELSE /\ active_connections_' = active_connections_ - 1
            /\ IF c \in connected
               THEN /\ available_connections_' = Append(available_connections_, c)
                    /\ connected' = connected
               ELSE /\ available_connections_' = available_connections_
                    /\ connected' = connected \ {c}
            /\ NotifyOne(pc, pc')

\* ---------------------------------------------------------------- acquire
\* mutant: front() is handed out but never popped
PopFront_Keep(q) == q

\* available_connections_.pop() after front() was moved out
PopFront(q) == Tail(q)

\* mutant: a connection is created at the limit too (<= for <)
UnderMax_OffByOne ==
    active_connections_ + Len(available_connections_) <= max_connections

\* total < config_.max_connections
UnderMax == active_connections_ + Len(available_connections_) < max_connections

\* mutant: the wait has no deadline (cv_.wait instead of cv_.wait_until)
DeadlinePassed_Never(t) == FALSE

\* the deadline of thread t's call has been reached. deadline is now + timeout
\* for an arbitrary timeout, so only the truth value of now >= deadline is
\* kept per call: false until the clock reaches the deadline, true from then on
DeadlinePassed(t) == deadline_passed[t]

\* acquire leaves the loop of thread t with outcome o
Leave(t, o) ==
    /\ pc' = [pc EXCEPT ![t] = "idle"]
    /\ last_acquire' = o
    /\ deadline_passed' = [deadline_passed EXCEPT ![t] = FALSE]

\* one pass through the while(true) body of acquire with mutex_ held, for
\* thread t; passed is the value of now >= deadline in this pass
AcquireLoop(t, passed) ==
    IF shutdown_
    THEN /\ Leave(t, "shutdown")
         /\ UNCHANGED <<queueVars, connected, createVars, lease, unreturned>>
    ELSE IF available_connections_ # <<>>
    THEN LET conn == Head(available_connections_) IN
         /\ available_connections_' = PopFront(available_connections_)
         /\ IF validate_on_acquire /\ conn \notin connected
            THEN \* conn->reset(): PQreset restores the session or leaves it bad;
                 \* it does not throw, so the catch block never runs
                 \E ok \in BOOLEAN :
                    connected' = IF ok THEN connected \cup {conn} ELSE connected
            ELSE connected' = connected
         /\ active_connections_' = active_connections_ + 1
         /\ lease' = Put(lease, IssuedLease(conn))
         /\ unreturned' = unreturned + 1
         /\ Leave(t, "lease")
         /\ UNCHANGED createVars
    ELSE IF UnderMax
    THEN \/ \* create_connection() succeeds
            /\ created < MaxCreated
            /\ created' = created + 1
            /\ connected' = connected \cup Range(FreshSeq(1))
            /\ active_connections_' = active_connections_ + 1
            /\ lease' = Put(lease, IssuedLease(FreshSeq(1)[1]))
            /\ unreturned' = unreturned + 1
            /\ Leave(t, "lease")
            /\ UNCHANGED <<available_connections_, creation_failed>>
         \/ \* create_connection() throws, the error leaves acquire
            /\ Leave(t, "connerr")
            /\ UNCHANGED <<queueVars, connected, createVars, lease, unreturned>>
    ELSE IF passed
    THEN /\ Leave(t, "timeout")
         /\ UNCHANGED <<queueVars, connected, createVars, lease, unreturned>>
    ELSE \* cv_.wait_until(lock, deadline)
         /\ pc' = [pc EXCEPT ![t] = "waiting"]
         /\ deadline_passed' = [deadline_passed EXCEPT ![t] = FALSE]
         /\ UNCHANGED <<queueVars, connected, createVars, lease, unreturned,
                        last_acquire>>

\* thread t calls pool.acquire(timeout); passed: the deadline is already
\* reached when the first pass tests it (timeout <= 0, or the thread was
\* delayed that long)
AcquireCall(t) ==
    /\ pool_state = "running"
    /\ pc[t] = "idle"
    /\ RoomForLease
    /\ \E passed \in BOOLEAN : AcquireLoop(t, passed)
    /\ UNCHANGED <<configVars, sessionVars, removed, pool_state, shutdown_>>

\* thread t, unblocked from cv_.wait_until, re-locks mutex_ and loops
AcquireResume(t) ==
    /\ pc[t] = "woken"
    /\ AcquireLoop(t, DeadlinePassed(t))
    /\ UNCHANGED <<configVars, sessionVars, removed, pool_state, shutdown_>>

\* cv_.wait_until returns because the deadline was reached
WaitTimeout(t) ==
    /\ pc[t] = "waiting"
    /\ DeadlinePassed(t)
    /\ pc' = [pc EXCEPT ![t] = "woken"]
    /\ UNCHANGED <<configVars, sessionVars, removed, pool_state, shutdown_, queueVars, connected,
                   createVars, lease, unreturned, last_acquire, deadline_passed>>

\* cv_.wait_until returns spuriously
SpuriousWakeup(t) ==
    /\ pc[t] = "waiting"
    /\ ~DeadlinePassed(t)
    /\ pc' = [pc EXCEPT ![t] = "woken"]
    /\ UNCHANGED <<configVars, sessionVars, removed, pool_state, shutdown_, queueVars, connected,
                   createVars, lease, unreturned, last_acquire, deadline_passed>>

\* steady_clock reaches the deadline of thread t's pending call
DeadlineReached(t) ==
    /\ pc[t] \in InAcquire
    /\ ~deadline_passed[t]
    /\ deadline_passed' = [deadline_passed EXCEPT ![t] = TRUE]
    /\ UNCHANGED <<configVars, sessionVars, removed, pool_state, shutdown_, queueVars, connected,
                   createVars, lease, unreturned, pc, last_acquire>>

\* --------------------------------------------------------------- shutdown
Shutdown ==
    /\ pool_state = "running"
    /\ shutdown_' = TRUE
    /\ available_connections_' = <<>>
    /\ connected' = connected \ Range(available_connections_)
    /\ pc' = NotifyAll(pc)
    /\ UNCHANGED <<configVars, sessionVars, removed, pool_state, active_connections_, createVars,
                   lease, unreturned, last_acquire, deadline_passed>>

\* --------------------------------------------------------------- maintain
\* k: create_connection calls that succeed before the loop ends or breaks
\* maintain() returning ret
maintain(ret) ==
    /\ pool_state = "running"
    /\ IF shutdown_
       THEN \* if (shutdown_) return 0;
            /\ ret = 0
            /\ UNCHANGED <<available_connections_, connected, createVars>>
       ELSE LET healthy == SelectSeq2(available_connections_, connected)
                total   == active_connections_ + Len(healthy)
                needed  == IF total < min_connections
                           THEN min_connections - total ELSE 0
            IN \E k \in 0..needed :
               /\ created + k <= MaxCreated
               /\ created' = created + k
               /\ available_connections_' = healthy \o FreshSeq(k)
               /\ connected' = connected \cup Range(FreshSeq(k))
               /\ UNCHANGED creation_failed
               /\ ret = Len(available_connections_) - Len(healthy)
    /\ UNCHANGED <<configVars, sessionVars, pool_state, shutdown_, active_connections_,
                   lease, unreturned, pc, last_acquire, deadline_passed>>

\* pool.maintain(); as a statement: the value it returns is dropped
Maintain ==
    /\ \E ret \in 0..MaxPool : maintain(ret)
    /\ UNCHANGED removed

\* removed = pool.maintain();
MaintainReturns ==
    /\ \E ret \in 0..MaxPool : maintain(ret) /\ removed' = ret

\* ------------------------------------------------------------ refresh_all
\* mutant: the idle queue is not emptied before it is filled
Refilled_Kept(k) == available_connections_ \o FreshSeq(k)

\* the idle queue after every element was popped and k new connections pushed
Refilled(k) == FreshSeq(k)

\* k: how many of the min_connections create_connection calls succeed
RefreshAll ==
    /\ pool_state = "running"
    /\ IF shutdown_
       THEN UNCHANGED <<available_connections_, connected, createVars, pc>>
       ELSE \E k \in 0..min_connections :
            /\ created + k <= MaxCreated
            /\ created' = created + k
            /\ available_connections_' = Refilled(k)
            /\ connected' = (connected \ Range(available_connections_))
                            \cup Range(FreshSeq(k))
            /\ UNCHANGED creation_failed
            /\ pc' = NotifyAll(pc)
    /\ UNCHANGED <<configVars, sessionVars, removed, pool_state, shutdown_, active_connections_,
                   lease, unreturned, last_acquire, deadline_passed>>

\* ------------------------------------------------------ pooled_connection
\* what an object in state s does with the connection it holds before it
\* dies or takes another: if (conn_ && returner_) returner_(std::move(conn_));
\* otherwise the unique_ptr, if it owns a connection, destroys it
ReleaseHeld(s) ==
    IF s.conn_ # NoConn /\ s.returner_
    THEN ReturnConnection(s.conn_)
    ELSE /\ connected' = connected \ {s.conn_}
         /\ UNCHANGED <<queueVars, pc, unreturned>>

\* mutant: the move copies conn_ and returner_ without clearing the source
MovedFrom_Copy(o) == o

\* what a moved-from object that was in state o is left with: conn_ is null
\* and returner_ is a moved-from std::function, which libstdc++, libc++ and
\* the MSVC library all leave empty
MovedFrom(o) == [conn_ |-> NoConn, returner_ |-> FALSE]

\* ~pooled_connection() of an object in state s
LeaseDestroy(s) ==
    /\ lease[s] > 0
    /\ ReleaseHeld(s)
    /\ lease' = Drop(lease, s)
    /\ UNCHANGED <<configVars, sessionVars, removed, pool_state, shutdown_, createVars, last_acquire,
                   deadline_passed>>

\* pooled_connection() = default
LeaseDefaultConstruct ==
    /\ RoomForLease
    /\ lease' = Put(lease, EmptyLease)
    /\ UNCHANGED <<configVars, sessionVars, removed, pool_state, shutdown_, queueVars, connected,
                   createVars, unreturned, pc, last_acquire, deadline_passed>>

\* pooled_connection(pooled_connection&& other), other in state o: the new
\* object takes other's members
LeaseMoveConstruct(o) ==
    /\ RoomForLease
    /\ lease[o] > 0
    /\ lease' = Put(Put(Drop(lease, o), MovedFrom(o)), o)
    /\ UNCHANGED <<configVars, sessionVars, removed, pool_state, shutdown_, queueVars, connected,
                   createVars, unreturned, pc, last_acquire, deadline_passed>>

\* operator=(pooled_connection&& other): *this in state l, other in state o;
\* self says this == &other
LeaseMoveAssign(l, o, self) ==
    /\ lease[l] > 0
    /\ lease[o] > 0
    /\ IF self
       THEN /\ l = o
            /\ UNCHANGED <<queueVars, connected, lease, unreturned, pc>>
       ELSE \* two objects
            /\ l # o \/ lease[l] >= 2
            /\ ReleaseHeld(l)
            /\ lease' = Put(Put(Drop(Drop(lease, l), o), MovedFrom(o)), o)
    /\ UNCHANGED <<configVars, sessionVars, removed, pool_state, shutdown_, createVars, last_acquire,
                   deadline_passed>>

\* ------------------------------------------------------------ environment
\* the server or the network ends the session of connection c:
\* PQstatus(conn_) stops being CONNECTION_OK
ConnectionDrop(c) ==
    /\ c \in connected
    /\ connected' = connected \ {c}
    /\ UNCHANGED <<configVars, sessionVars, removed, pool_state, shutdown_, queueVars, createVars,
                   lease, unreturned, pc, last_acquire, deadline_passed>>

Next ==
    \/ Construct
    \/ \E t \in Threads : AcquireCall(t)
    \/ \E t \in Threads : AcquireResume(t)
    \/ \E t \in Threads : WaitTimeout(t)
    \/ \E t \in Threads : SpuriousWakeup(t)
    \/ \E t \in Threads : DeadlineReached(t)
    \/ Shutdown
    \/ Maintain
    \/ RefreshAll
    \/ \E s \in LeaseStates : LeaseDestroy(s)
    \/ \E c \in ConnIds : ConnectionDrop(c)

\* the pool used by threads that only acquire leases and let them go out of scope
Spec == Init /\ [][Next]_vars

\* the same pool with leases that are also default-constructed and moved
LeaseNext ==
    \/ Next
    \/ LeaseDefaultConstruct
    \/ \E o \in LeaseStates : LeaseMoveConstruct(o)
    \/ \E l, o \in LeaseStates, self \in BOOLEAN : LeaseMoveAssign(l, o, self)

LeaseSpec == Init /\ [][LeaseNext]_vars

\* the pool of Spec with a caller that keeps what maintain() returns
MaintainNext ==
    \/ Construct
    \/ \E t \in Threads : AcquireCall(t)
    \/ \E t \in Threads : AcquireResume(t)
    \/ \E t \in Threads : WaitTimeout(t)
    \/ \E t \in Threads : SpuriousWakeup(t)
    \/ \E t \in Threads : DeadlineReached(t)
    \/ Shutdown
    \/ MaintainReturns
    \/ RefreshAll
    \/ \E s \in LeaseStates : LeaseDestroy(s)
    \/ \E c \in ConnIds : ConnectionDrop(c)

MaintainSpec == Init /\ [][MaintainNext]_vars

\* Spec with time that advances and a scheduler that lets every unblocked
\* thread run: the clock reaches every deadline, a wait_until whose deadline
\* has passed returns, and a thread that left wait_until gets mutex_
Fairness ==
    /\ \A t \in Threads : WF_vars(DeadlineReached(t))
    /\ \A t \in Threads : WF_vars(WaitTimeout(t))
    /\ \A t \in Threads : WF_vars(AcquireResume(t))

FairSpec == Init /\ [][Next]_vars /\ Fairness

\* the pool used only through acquire and lease release, as in the test
\* "Connection Reuse Pattern": connections stay healthy, and nobody calls
\* maintain, refresh_all or shutdown
ReuseNext ==
    \/ Construct
    \/ \E t \in Threads : AcquireCall(t)
    \/ \E t \in Threads : AcquireResume(t)
    \/ \E t \in Threads : WaitTimeout(t)
    \/ \E t \in Threads : SpuriousWakeup(t)
    \/ \E t \in Threads : DeadlineReached(t)
    \/ \E s \in LeaseStates : LeaseDestroy(s)

ReuseSpec == Init /\ [][ReuseNext]_vars

\* ------------------------------- pooled_connection::execute_with_retry
\* mutant: is_healthy() without the is_connected() test
IsHealthy_NotNull == rt_conn # "null"

\* is_healthy(): conn_ && conn_->is_connected()
IsHealthy == rt_conn = "up"

\* what try_reconnect does to conn_. how: "reset" (conn_->reset() restores the
\* session), "fresh" (reset does not, reconnector_() returns a new connection),
\* "fail" (reset does not and reconnector_() throws, which is caught)
ReconnectConn(how) ==
    IF ~rt_reconnector THEN rt_conn
    ELSE IF how = "reset" /\ rt_conn # "null" THEN "up"
    ELSE IF how = "fail" THEN (IF rt_conn = "null" THEN "null" ELSE "down")
    ELSE "up"

\* the value try_reconnect returns
ReconnectOk(how) ==
    /\ rt_reconnector
    /\ how # "fail"

\* mutant: one retry too many
WithinRetries_OffByOne(a) == a <= max_retries + 1

\* attempts <= max_retries
WithinRetries(a) == a <= max_retries

\* a lease as acquire issues it (connected or not) or a default-constructed
\* one, and the argument max_retries
RetryInit ==
    /\ PoolIdle
    /\ TxnIdle
    /\ ClientIdle
    /\ max_retries \in 0..MaxRetries
    /\ \/ rt_conn \in {"up", "down"} /\ rt_reconnector = TRUE
       \/ rt_conn = "null" /\ rt_reconnector = FALSE
    /\ rt_pc = "idle"
    /\ attempts = 0
    /\ rt_error = "none"
    /\ invoked = 0
    /\ reconnects = 0
    /\ first_failure = "none"
    /\ rt_result = "none"

\* execute_with_retry(func, max_retries) is entered: int attempts = 0
RetryCall ==
    /\ rt_pc = "idle"
    /\ rt_pc' = "try"
    /\ attempts' = 0
    /\ UNCHANGED <<max_retries, rt_conn, rt_reconnector, rt_error, invoked,
                   reconnects, first_failure, rt_result, notRetryVars>>

\* top of the try block: if (!is_healthy()) { if (!try_reconnect()) throw ... }
\* the error thrown reads "Connection lost and reconnection failed"
RetryTry ==
    /\ rt_pc = "try"
    /\ IF IsHealthy
       THEN /\ rt_pc' = "call"
            /\ UNCHANGED <<rt_conn, reconnects, rt_error>>
       ELSE \E how \in {"reset", "fresh", "fail"} :
            /\ reconnects' = reconnects + 1
            /\ rt_conn' = ReconnectConn(how)
            /\ IF ReconnectOk(how)
               THEN rt_pc' = "call" /\ UNCHANGED rt_error
               ELSE rt_pc' = "catch" /\ rt_error' = "connection"
    /\ UNCHANGED <<max_retries, attempts, rt_reconnector, invoked,
                   first_failure, rt_result, notRetryVars>>

\* return func(*conn_). out: func returns, throws a database_error whose
\* message names a connection fault ("connection"), throws another
\* database_error ("plain"), or throws an exception of another type
\* ("other"); lost: the session is gone when func fails
RetryInvoke ==
    /\ rt_pc = "call"
    /\ invoked' = invoked + 1
    /\ \E out \in {"return", "connection", "plain", "other"}, lost \in BOOLEAN :
       IF out = "return"
       THEN /\ rt_pc' = "done"
            /\ rt_result' = "returned"
            /\ UNCHANGED <<rt_conn, rt_error, first_failure>>
       ELSE /\ rt_conn' = IF lost THEN "down" ELSE rt_conn
            /\ rt_error' = out
            /\ first_failure' =
                 IF first_failure # "none" THEN first_failure
                 ELSE IF out = "connection" \/ rt_conn' # "up" THEN "connection"
                 ELSE "plain"
            /\ IF out = "other"
               THEN rt_pc' = "done" /\ rt_result' = "raised"
               ELSE rt_pc' = "catch" /\ UNCHANGED rt_result
    /\ UNCHANGED <<max_retries, attempts, rt_reconnector, reconnects, notRetryVars>>

\* catch (const database_error& e): count the attempt, classify the error,
\* reconnect and continue, or throw
RetryCatch ==
    /\ rt_pc = "catch"
    /\ attempts' = attempts + 1
    /\ IF (rt_error = "connection" \/ ~IsHealthy) /\ WithinRetries(attempts')
       THEN \E how \in {"reset", "fresh", "fail"} :
            /\ reconnects' = reconnects + 1
            /\ rt_conn' = ReconnectConn(how)
            /\ IF ReconnectOk(how)
               THEN rt_pc' = "try" /\ UNCHANGED <<rt_error, rt_result>>
               ELSE \* throw database_error{"Failed to reconnect after ..."}
                    /\ rt_pc' = "done"
                    /\ rt_result' = "raised"
                    /\ rt_error' = "reconnect_failed"
       ELSE \* throw;
            /\ rt_pc' = "done"
            /\ rt_result' = "raised"
            /\ UNCHANGED <<rt_conn, reconnects, rt_error>>
    /\ UNCHANGED <<max_retries, rt_reconnector, invoked, first_failure, notRetryVars>>

\* the lease's session is found ended by a command its holder runs before
\* the call.  Inside the call PQstatus changes only in func and in
\* try_reconnect: nothing else touches the connection between the is_healthy()
\* test and func(*conn_)
RetryConnectionLost ==
    /\ rt_pc = "idle"
    /\ rt_conn = "up"
    /\ rt_conn' = "down"
    /\ UNCHANGED <<max_retries, rt_pc, attempts, rt_reconnector, rt_error, invoked,
                   reconnects, first_failure, rt_result, notRetryVars>>

RetryNext ==
    \/ RetryCall
    \/ RetryTry
    \/ RetryInvoke
    \/ RetryCatch
    \/ RetryConnectionLost

\* func returns or throws, and the thread inside the call keeps running
RetryFairness ==
    /\ WF_vars(RetryTry)
    /\ WF_vars(RetryInvoke)
    /\ WF_vars(RetryCatch)

RetrySpec == RetryInit /\ [][RetryNext]_vars /\ RetryFairness

\* ------------------------------------ database_connection::execute
\* The transaction classes reach the server only through conn_.execute(sql),
\* which throws "Connection is not valid" without sending when the connection
\* is down and throws the server's error when the command fails. The server's
\* replies are those of PostgreSQL: an error inside a transaction block aborts
\* the block until ROLLBACK or ROLLBACK TO SAVEPOINT.
Cmd(c, a) == [cmd |-> c, arg |-> a]
IsWrite(e) == e[1] = "w"
\* the writes among the entries of work
WritesOf(work) == {work[i][2] : i \in {j \in 1..Len(work) : IsWrite(work[j])}}
\* mutant: the outermost savepoint is taken for savepoint n
MarkerAt_Outermost(work, n) ==
    IF \E i \in 1..Len(work) : work[i] = <<"sp", n>>
    THEN CHOOSE i \in 1..Len(work) :
             /\ ~IsWrite(work[i])
             /\ \A j \in 1..(i - 1) : IsWrite(work[j])
    ELSE 0

\* where savepoint n stands in work, 0 when it does not exist
MarkerAt(work, n) ==
    IF \E i \in 1..Len(work) : work[i] = <<"sp", n>>
    THEN CHOOSE i \in 1..Len(work) : work[i] = <<"sp", n>>
    ELSE 0

\* what execute(c) does: ok (it returns) or not (it throws), and the session's
\* transaction block, its work and the durable writes afterwards. fail: the
\* server rejects a COMMIT (deferred constraint, serialization failure) or a
\* statement (constraint violation)
Reply(c, fail) ==
    LET same(ok) == [ok |-> ok, txn |-> srv_txn, work |-> srv_work,
                     committed |-> srv_committed]
        error == [ok |-> FALSE, txn |-> IF srv_txn = "none" THEN "none" ELSE "failed",
                  work |-> srv_work, committed |-> srv_committed]
        block(work) == [ok |-> TRUE, txn |-> "open", work |-> work,
                        committed |-> srv_committed]
        ended(ok, durable) == [ok |-> ok, txn |-> "none", work |-> <<>>,
                               committed |-> durable]
        at == MarkerAt(srv_work, c.arg)
    IN  IF ~srv_up THEN same(FALSE)
        ELSE CASE c.cmd = "BEGIN" ->
                    IF srv_txn = "none" THEN block(<<>>) ELSE same(TRUE)
               [] c.cmd = "COMMIT" ->
                    IF srv_txn = "open"
                    THEN IF fail THEN ended(FALSE, srv_committed)
                         ELSE ended(TRUE, srv_committed \cup WritesOf(srv_work))
                    ELSE ended(TRUE, srv_committed)
               [] c.cmd = "ROLLBACK" -> ended(TRUE, srv_committed)
               [] c.cmd = "SAVEPOINT" ->
                    IF srv_txn = "open"
                    THEN block(Append(srv_work, <<"sp", c.arg>>))
                    ELSE error
               [] c.cmd = "RELEASE" ->
                    IF srv_txn = "open" /\ at > 0
                    THEN block(SubSeq(srv_work, 1, at - 1) \o
                               SelectSeq(SubSeq(srv_work, at + 1, Len(srv_work)),
                                         IsWrite))
                    ELSE error
               [] c.cmd = "ROLLBACK TO" ->
                    IF srv_txn # "none" /\ at > 0
                    THEN block(SubSeq(srv_work, 1, at))
                    ELSE error
               [] c.cmd = "WRITE" ->
                    IF fail THEN error
                    ELSE IF srv_txn = "open"
                    THEN block(Append(srv_work, <<"w", c.arg>>))
                    ELSE IF srv_txn = "none"
                    THEN [ok |-> TRUE, txn |-> "none", work |-> <<>>,
                          committed |-> srv_committed \cup {c.arg}]
                    ELSE error

\* conn_.execute(c) with reply r
Execute(c, r) ==
    /\ sent' = c
    /\ srv_txn' = r.txn
    /\ srv_work' = r.work
    /\ srv_committed' = r.committed

\* an operation that returns or throws without calling conn_.execute
NothingSent ==
    /\ sent' = NoCmd
    /\ UNCHANGED <<srv_txn, srv_work, srv_committed>>

\* the server or the network ends the session; the server drops the open block
ConnectionLost ==
    /\ outcome # "terminate"
    /\ srv_up
    /\ srv_up' = FALSE
    /\ srv_txn' = "none"
    /\ srv_work' = <<>>
    /\ UNCHANGED <<srv_committed, txn, sp, writes, sent, outcome, finalized,
                   wt_pc, wt_error, notTxnVars>>

\* --------------------------------------------------- database_transaction
\* an object whose lifetime has ended has no fields to read
GoneTxn == [st |-> "gone", committed_ |-> FALSE, rolled_back_ |-> FALSE]
GoneSp == [st |-> "gone", released_ |-> FALSE, release_issued |-> FALSE]

\* mutant: only committed_ is tested
Finalized_CommittedOnly(t) == t.committed_

\* committed_ || rolled_back_, the test that opens commit, rollback,
\* create_savepoint and execute; is_active() is its negation
Finalized(t) == t.committed_ \/ t.rolled_back_

\* the process has not been ended by std::terminate
ProcessAlive == outcome # "terminate"
\* code outside with_transaction's own statements can run
UserMayAct == ProcessAlive /\ wt_pc \in {"none", "func"}

\* database_transaction(conn): BEGIN; the constructor throws if it fails
Begin ==
    /\ \A j \in TxnObjs : txn[j].st = "none"
    /\ LET r == Reply(Cmd("BEGIN", 0), FALSE) IN
       /\ Execute(Cmd("BEGIN", 0), r)
       /\ IF r.ok
          THEN /\ txn' = [txn EXCEPT ![1] = [st |-> "live", committed_ |-> FALSE,
                                             rolled_back_ |-> FALSE]]
               /\ outcome' = "ok"
          ELSE /\ outcome' = "error"
               /\ UNCHANGED txn
    /\ UNCHANGED <<srv_up, sp, writes, finalized>>

\* txn.commit() on object i
Commit(i) ==
    /\ txn[i].st = "live"
    /\ IF Finalized(txn[i])
       THEN /\ NothingSent
            /\ outcome' = "state_error"
            /\ UNCHANGED <<txn, finalized>>
       ELSE \E fail \in BOOLEAN :
            LET r == Reply(Cmd("COMMIT", 0), fail) IN
            /\ Execute(Cmd("COMMIT", 0), r)
            /\ IF r.ok
               THEN /\ txn' = [txn EXCEPT ![i].committed_ = TRUE]
                    /\ finalized' = finalized + 1
                    /\ outcome' = "ok"
               ELSE /\ outcome' = "error"
                    /\ UNCHANGED <<txn, finalized>>
    /\ UNCHANGED <<srv_up, sp, writes>>

\* txn.rollback() on object i
Rollback(i) ==
    /\ txn[i].st = "live"
    /\ IF Finalized(txn[i])
       THEN /\ NothingSent
            /\ outcome' = "state_error"
            /\ UNCHANGED <<txn, finalized>>
       ELSE LET r == Reply(Cmd("ROLLBACK", 0), FALSE) IN
            /\ Execute(Cmd("ROLLBACK", 0), r)
            /\ IF r.ok
               THEN /\ txn' = [txn EXCEPT ![i].rolled_back_ = TRUE]
                    /\ finalized' = finalized + 1
                    /\ outcome' = "ok"
               ELSE /\ outcome' = "error"
                    /\ UNCHANGED <<txn, finalized>>
    /\ UNCHANGED <<srv_up, sp, writes>>

\* ~database_transaction() of object i: rollback() if still active, any
\* exception swallowed
Destroy(i) ==
    /\ txn[i].st = "live"
    /\ IF Finalized(txn[i])
       THEN /\ NothingSent
            /\ outcome' = "ok"
            /\ txn' = [txn EXCEPT ![i] = GoneTxn]
            /\ UNCHANGED finalized
       ELSE LET r == Reply(Cmd("ROLLBACK", 0), FALSE) IN
            /\ Execute(Cmd("ROLLBACK", 0), r)
            /\ IF r.ok
               THEN /\ txn' = [txn EXCEPT ![i] = GoneTxn]
                    /\ finalized' = finalized + 1
                    /\ outcome' = "ok"
               ELSE /\ txn' = [txn EXCEPT ![i] = GoneTxn]
                    /\ outcome' = "suppressed"
                    /\ UNCHANGED finalized
    /\ UNCHANGED <<srv_up, sp, writes>>

TxnConstruct ==
    /\ UserMayAct /\ wt_pc = "none"
    /\ Begin
    /\ UNCHANGED <<wt_pc, wt_error, notTxnVars>>

TxnCommit(i) ==
    /\ UserMayAct
    /\ Commit(i)
    /\ UNCHANGED <<wt_pc, wt_error, notTxnVars>>

TxnRollback(i) ==
    /\ UserMayAct
    /\ Rollback(i)
    /\ UNCHANGED <<wt_pc, wt_error, notTxnVars>>

\* the object with_transaction owns is destroyed by with_transaction only
TxnDestroy(i) ==
    /\ UserMayAct
    /\ wt_pc = "func" => i # 1
    /\ Destroy(i)
    /\ UNCHANGED <<wt_pc, wt_error, notTxnVars>>

\* mutant: the moved-from object keeps its flags
TxnMove_Copy(i, j) ==
    /\ UserMayAct
    /\ txn[i].st = "none"
    /\ \A k \in TxnObjs : k < i => txn[k].st # "none"
    /\ txn[j].st = "live"
    /\ txn' = [txn EXCEPT ![i] = txn[j]]
    /\ NothingSent
    /\ outcome' = "ok"
    /\ UNCHANGED <<srv_up, sp, writes, finalized, wt_pc, wt_error, notTxnVars>>

\* database_transaction(database_transaction&& other): object i built from
\* object j, whose flags are both exchanged for true; i is the next unused
\* object
TxnMove(i, j) ==
    /\ UserMayAct
    /\ txn[i].st = "none"
    /\ \A k \in TxnObjs : k < i => txn[k].st # "none"
    /\ txn[j].st = "live"
    /\ txn' = [txn EXCEPT ![i] = txn[j],
                          ![j] = [st |-> "live", committed_ |-> TRUE,
                                  rolled_back_ |-> TRUE]]
    /\ NothingSent
    /\ outcome' = "ok"
    /\ UNCHANGED <<srv_up, sp, writes, finalized, wt_pc, wt_error, notTxnVars>>

\* txn.create_savepoint(name) on object i; savepoint n is the object returned
TxnCreateSavepoint(i, n) ==
    /\ UserMayAct
    /\ txn[i].st = "live"
    /\ sp[n].st = "none"
    /\ \A m \in Savepoints : m < n => sp[m].st # "none"
    /\ IF Finalized(txn[i])
       THEN /\ NothingSent
            /\ outcome' = "state_error"
            /\ UNCHANGED sp
       ELSE LET r == Reply(Cmd("SAVEPOINT", n), FALSE) IN
            /\ Execute(Cmd("SAVEPOINT", n), r)
            /\ IF r.ok
               THEN /\ sp' = [sp EXCEPT ![n].st = "live"]
                    /\ outcome' = "ok"
               ELSE /\ outcome' = "error"
                    /\ UNCHANGED sp
    /\ UNCHANGED <<srv_up, txn, writes, finalized, wt_pc, wt_error, notTxnVars>>

\* txn.execute(sql) on object i, sql being the next write
TxnExecute(i) ==
    /\ UserMayAct
    /\ txn[i].st = "live"
    /\ IF Finalized(txn[i])
       THEN /\ NothingSent
            /\ outcome' = "state_error"
            /\ UNCHANGED writes
       ELSE /\ writes < MaxWrites
            /\ \E fail \in BOOLEAN :
               LET r == Reply(Cmd("WRITE", writes + 1), fail) IN
               /\ Execute(Cmd("WRITE", writes + 1), r)
               /\ writes' = IF r.ok THEN writes + 1 ELSE writes
               /\ outcome' = IF r.ok THEN "ok" ELSE "error"
    /\ UNCHANGED <<srv_up, txn, sp, finalized, wt_pc, wt_error, notTxnVars>>

\* -------------------------------------------------------------- savepoint
\* std::format("RELEASE SAVEPOINT {}", name_)
ReleaseCmd(n) == Cmd("RELEASE", n)

\* mutant: the whole transaction is rolled back
RollbackToCmd_Plain(n) == Cmd("ROLLBACK", 0)

\* std::format("ROLLBACK TO SAVEPOINT {}", name_)
RollbackToCmd(n) == Cmd("ROLLBACK TO", n)

\* mutant: released_ is not tested
Unreleased_Always(n) == sp[n].st = "live"

\* !released_
Unreleased(n) == ~sp[n].released_

\* sp.release()
SpRelease(n) ==
    /\ UserMayAct
    /\ sp[n].st = "live"
    /\ IF Unreleased(n)
       THEN LET r == Reply(ReleaseCmd(n), FALSE) IN
            /\ Execute(ReleaseCmd(n), r)
            /\ sp' = [sp EXCEPT ![n].released_ = r.ok, ![n].release_issued = TRUE]
            /\ outcome' = IF r.ok THEN "ok" ELSE "error"
       ELSE /\ NothingSent
            /\ outcome' = "ok"
            /\ UNCHANGED sp
    /\ UNCHANGED <<srv_up, txn, writes, finalized, wt_pc, wt_error, notTxnVars>>

\* sp.rollback()
SpRollback(n) ==
    /\ UserMayAct
    /\ sp[n].st = "live"
    /\ IF Unreleased(n)
       THEN LET r == Reply(RollbackToCmd(n), FALSE) IN
            /\ Execute(RollbackToCmd(n), r)
            /\ outcome' = IF r.ok THEN "ok" ELSE "error"
       ELSE /\ NothingSent
            /\ outcome' = "ok"
    /\ UNCHANGED <<srv_up, txn, sp, writes, finalized, wt_pc, wt_error, notTxnVars>>

\* ~savepoint(): the destructor is noexcept and has no try block, so an
\* exception thrown by conn_.execute ends the process through std::terminate
SpDestroy(n) ==
    /\ UserMayAct
    /\ sp[n].st = "live"
    /\ sp' = [sp EXCEPT ![n] = GoneSp]
    /\ IF Unreleased(n)
       THEN LET r == Reply(RollbackToCmd(n), FALSE) IN
            /\ Execute(RollbackToCmd(n), r)
            /\ outcome' = IF r.ok THEN "ok" ELSE "terminate"
       ELSE /\ NothingSent
            /\ outcome' = "ok"
    /\ UNCHANGED <<srv_up, txn, writes, finalized, wt_pc, wt_error, notTxnVars>>

\* ------------------------------------------------------- with_transaction
\* database_transaction txn(conn, level); a throwing constructor leaves
\* with_transaction at once
WtCall ==
    /\ ProcessAlive /\ wt_pc = "none"
    /\ Begin
    /\ wt_pc' = IF outcome' = "ok" THEN "func" ELSE "done"
    /\ wt_error' = IF outcome' = "ok" THEN "none" ELSE "begin"
    /\ UNCHANGED notTxnVars

\* the objects func created have been destroyed when func is left
FuncLocalsGone ==
    /\ \A n \in Savepoints : sp[n].st # "live"
    /\ \A i \in TxnObjs \ {1} : txn[i].st # "live"

\* func(txn) returns
WtFuncReturn ==
    /\ ProcessAlive /\ wt_pc = "func"
    /\ FuncLocalsGone
    /\ wt_pc' = "commit"
    /\ UNCHANGED <<srv_up, srv_txn, srv_work, srv_committed, txn, sp, writes, sent,
                   outcome, finalized, wt_error, notTxnVars>>

\* func(txn) throws
WtFuncThrow ==
    /\ ProcessAlive /\ wt_pc = "func"
    /\ FuncLocalsGone
    /\ wt_pc' = "catch"
    /\ wt_error' = "unit"
    /\ UNCHANGED <<srv_up, srv_txn, srv_work, srv_committed, txn, sp, writes, sent,
                   outcome, finalized, notTxnVars>>

\* txn.commit(); after func returned
WtCommit ==
    /\ ProcessAlive /\ wt_pc = "commit"
    /\ Commit(1)
    /\ wt_pc' = IF outcome' = "ok" THEN "exit" ELSE "catch"
    /\ wt_error' = IF outcome' = "ok" THEN "none"
                   ELSE IF outcome' = "state_error" THEN "commit_state"
                   ELSE "commit"
    /\ UNCHANGED notTxnVars

\* catch (...) { if (txn.is_active()) txn.rollback(); throw; }
\* an exception thrown by rollback() replaces the one being handled
WtCatch ==
    /\ ProcessAlive /\ wt_pc = "catch"
    /\ wt_pc' = "exit"
    /\ IF ~Finalized(txn[1])
       THEN /\ Rollback(1)
            /\ wt_error' = IF outcome' = "ok" THEN wt_error
                           ELSE IF wt_error = "unit" THEN "unit_masked"
                           ELSE "commit_masked"
       ELSE UNCHANGED <<srv_up, srv_txn, srv_work, srv_committed, txn, sp, writes,
                        sent, outcome, finalized, wt_error>>
    /\ UNCHANGED notTxnVars

\* txn goes out of scope, on return and on throw alike
WtExit ==
    /\ ProcessAlive /\ wt_pc = "exit"
    /\ Destroy(1)
    /\ wt_pc' = "done"
    /\ UNCHANGED <<wt_error, notTxnVars>>

\* a valid connection, no transaction yet
TxnInit ==
    /\ PoolIdle
    /\ RetryIdle
    /\ TxnIdle
    /\ ClientIdle

\* the transaction objects of one BEGIN: construction, moves, the four
\* operations, destruction
TxnNext ==
    \/ TxnConstruct
    \/ \E i \in TxnObjs : TxnCommit(i)
    \/ \E i \in TxnObjs : TxnRollback(i)
    \/ \E i \in TxnObjs : TxnDestroy(i)
    \/ \E i, j \in TxnObjs : TxnMove(i, j)
    \/ \E i \in TxnObjs, n \in Savepoints : TxnCreateSavepoint(i, n)
    \/ \E i \in TxnObjs : TxnExecute(i)
    \/ ConnectionLost

TxnSpec == TxnInit /\ [][TxnNext]_vars

\* one transaction object and the savepoints created through it
SavepointNext ==
    \/ TxnConstruct
    \/ TxnCommit(1)
    \/ TxnRollback(1)
    \/ TxnDestroy(1)
    \/ \E n \in Savepoints : TxnCreateSavepoint(1, n)
    \/ TxnExecute(1)
    \/ \E n \in Savepoints : SpRelease(n)
    \/ \E n \in Savepoints : SpRollback(n)
    \/ \E n \in Savepoints : SpDestroy(n)
    \/ ConnectionLost

SavepointSpec == TxnInit /\ [][SavepointNext]_vars

\* with_transaction(conn, func): func executes statements and may finalize
\* the transaction itself
WithTransactionNext ==
    \/ WtCall
    \/ TxnExecute(1)
    \/ TxnCommit(1)
    \/ TxnRollback(1)
    \/ WtFuncReturn
    \/ WtFuncThrow
    \/ WtCommit
    \/ WtCatch
    \/ WtExit
    \/ ConnectionLost

WithTransactionSpec == TxnInit /\ [][WithTransactionNext]_vars

TxnTypeOK ==
    /\ srv_up \in BOOLEAN
    /\ srv_txn \in {"none", "open", "failed"}
    /\ Len(srv_work) <= NumSavepoints + MaxWrites
    /\ srv_committed \subseteq 1..MaxWrites
    /\ \A i \in TxnObjs : txn[i].st \in {"none", "live", "gone"}
    /\ \A n \in Savepoints : sp[n].st \in {"none", "live", "gone"}
    /\ writes \in 0..MaxWrites
    /\ finalized \in 0..2
    /\ outcome \in {"none", "ok", "error", "state_error", "suppressed", "terminate"}
    /\ wt_pc \in {"none", "func", "commit", "catch", "exit", "done"}

\* ==================================================== typed_query_builder
\* The text of a query is a sequence of words; std::format and += put the
\* words of the keyword and of the argument behind the text so far. Every
\* method returns a new builder whose State is the new_state of the method; a
\* call whose requires-clause the State does not satisfy is rejected by the
\* compiler, which ends the chain.

\* arguments: column lists, table expressions (a table name, a sub-select in
\* parentheses) and conditions (the empty text among them)
Columns    == {<<"c">>}
Tables     == {<<"t">>, <<"(u", "WHERE", "p)">>}
Conditions == {<<>>, <<"a">>, <<"b">>}

SelectQuery(S) == S.query_type = "select_query_tag"
InsertQuery(S) == S.query_type = "insert_query_tag"
UpdateQuery(S) == S.query_type = "update_query_tag"
DeleteQuery(S) == S.query_type = "delete_query_tag"
HasFrom(S)     == S.has_from
HasWhere(S)    == S.has_where
HasSet(S)      == S.has_set
HasValues(S)   == S.has_values

\* mutant: a starter is accepted in every state
NoQueryStarted_Always(S) == TRUE

NoQueryStarted(S) == S.query_type = "no_query_tag"
QueryStarted(S)   == ~NoQueryStarted(S)

\* mutant: any started query can be executed
CanExecute_Started(S) == QueryStarted(S)

CanExecute(S) ==
    \/ SelectQuery(S) /\ HasFrom(S)
    \/ InsertQuery(S) /\ HasValues(S)
    \/ UpdateQuery(S) /\ HasSet(S)
    \/ DeleteQuery(S) /\ HasFrom(S)

\* mutant: from is repeatable
CanAddFrom_Repeat(S) == SelectQuery(S) \/ DeleteQuery(S)

CanAddFrom(S)   == (SelectQuery(S) \/ DeleteQuery(S)) /\ ~HasFrom(S)
CanAddWhere(S)  == QueryStarted(S) /\ HasFrom(S) /\ ~HasWhere(S)
CanAddSet(S)    == UpdateQuery(S) /\ ~HasSet(S)
CanAddValues(S) == InsertQuery(S) /\ ~HasValues(S)

\* mutant: where is accepted once, as the concept CanAddWhere has it
WhereAllowed_Once(S) == CanAddWhere(S)

\* the requires-clause of where: QueryStarted<State> && HasFrom<State>
WhereAllowed(S) == QueryStarted(S) /\ HasFrom(S)

\* mutant: the select modifiers do not wait for from
SelectFrom_AnySelect(S) == SelectQuery(S)

\* the requires-clause of order_by, limit, offset, join, group_by and having
SelectFrom(S) == SelectQuery(S) /\ HasFrom(S)

\* the requires-clause of returning
Modifying(S) == InsertQuery(S) \/ UpdateQuery(S) \/ DeleteQuery(S)

\* query_state<kind, from, where, set, values>
query_state(kind, from, where, set, values) ==
    [query_type |-> kind, has_from |-> from, has_where |-> where,
     has_set |-> set, has_values |-> values]

\* what the builders leave alone
notBuilderVars == <<poolVars, retryVars, txnVars, pg, arg, connVars, proc>>

\* the chain goes on: nothing was rejected and one more call fits the bound
TqOpen == tq.rejected = "" /\ Len(tq.chain) < MaxChain

\* method m called on the builder: accepted when its requires-clause holds,
\* returning typed_query_builder<new_state>(conn, text)
TqCall(m, args, requires, new_state, text) ==
    /\ TqOpen
    /\ tq' = IF requires
             THEN [State |-> new_state, query_ |-> text,
                   chain |-> Append(tq.chain, m),
                   args |-> Append(tq.args, args), rejected |-> ""]
             ELSE [tq EXCEPT !.rejected = m]
    /\ UNCHANGED <<dq, notBuilderVars>>

TqSelect(columns) ==
    TqCall("select", <<columns>>, NoQueryStarted(tq.State),
           query_state("select_query_tag", FALSE, FALSE, FALSE, FALSE),
           <<"SELECT">> \o columns)

TqInsertInto(table, columns) ==
    TqCall("insert_into", <<table, columns>>, NoQueryStarted(tq.State),
           query_state("insert_query_tag", FALSE, FALSE, FALSE, FALSE),
           <<"INSERT", "INTO">> \o table \o <<"(">> \o columns \o <<")">>)

TqUpdate(table) ==
    TqCall("update", <<table>>, NoQueryStarted(tq.State),
           query_state("update_query_tag", FALSE, FALSE, FALSE, FALSE),
           <<"UPDATE">> \o table)

TqDeleteFrom(table) ==
    TqCall("delete_from", <<table>>, NoQueryStarted(tq.State),
           query_state("delete_query_tag", TRUE, FALSE, FALSE, FALSE),
           <<"DELETE", "FROM">> \o table)

TqFrom(table) ==
    TqCall("from", <<table>>, CanAddFrom(tq.State),
           query_state(tq.State.query_type, TRUE, tq.State.has_where,
                       tq.State.has_set, tq.State.has_values),
           tq.query_ \o <<"FROM">> \o table)

\* new_state of set has true in the place of HasFrom too
TqSet(assignments) ==
    TqCall("set", <<assignments>>, CanAddSet(tq.State),
           query_state(tq.State.query_type, TRUE, tq.State.has_where,
                       TRUE, tq.State.has_values),
           tq.query_ \o <<"SET">> \o assignments)

\* new_state of values has true in the place of HasFrom too
TqValues(value_list) ==
    TqCall("values", <<value_list>>, CanAddValues(tq.State),
           query_state(tq.State.query_type, TRUE, tq.State.has_where,
                       tq.State.has_set, TRUE),
           tq.query_ \o <<"VALUES", "(">> \o value_list \o <<")">>)

TqWhere(condition) ==
    TqCall("where", <<condition>>, WhereAllowed(tq.State),
           query_state(tq.State.query_type, tq.State.has_from, TRUE,
                       tq.State.has_set, tq.State.has_values),
           tq.query_ \o (IF ~tq.State.has_where THEN <<"WHERE">> ELSE <<"AND">>)
                     \o condition)

TqOrderBy(column) ==
    TqCall("order_by", <<column>>, SelectFrom(tq.State), tq.State,
           tq.query_ \o <<"ORDER", "BY">> \o column \o <<"ASC">>)

TqLimit ==
    TqCall("limit", <<<<"1">>>>, SelectFrom(tq.State), tq.State, tq.query_ \o <<"LIMIT", "1">>)

TqJoin(table, condition) ==
    TqCall("join", <<table, condition>>, SelectFrom(tq.State), tq.State,
           tq.query_ \o <<"INNER", "JOIN">> \o table \o <<"ON">> \o condition)

TqOffset ==
    TqCall("offset", <<<<"1">>>>, SelectFrom(tq.State), tq.State, tq.query_ \o <<"OFFSET", "1">>)

\* inner_join, left_join, right_join and full_join: join(table, condition, type)
\* behind a requires-clause of their own
JoinTypes == [inner_join |-> "INNER", left_join |-> "LEFT",
              right_join |-> "RIGHT", full_join |-> "FULL"]

TqNamedJoin(m, table, condition) ==
    TqCall(m, <<table, condition>>, SelectFrom(tq.State), tq.State,
           tq.query_ \o <<JoinTypes[m], "JOIN">> \o table \o <<"ON">>
                     \o condition)

TqGroupBy(columns) ==
    TqCall("group_by", <<columns>>, SelectFrom(tq.State), tq.State,
           tq.query_ \o <<"GROUP", "BY">> \o columns)

TqHaving(condition) ==
    TqCall("having", <<condition>>, SelectFrom(tq.State), tq.State,
           tq.query_ \o <<"HAVING">> \o condition)

TqReturning(columns) ==
    TqCall("returning", <<columns>>, Modifying(tq.State), tq.State,
           tq.query_ \o <<"RETURNING">> \o columns)

\* execute(), execute(args...) and execute_async(args...): the builder is
\* left as it is
TqExecute ==
    TqCall("execute", <<>>, CanExecute(tq.State), tq.State, tq.query_)

BuilderInit ==
    /\ PoolIdle
    /\ RetryIdle
    /\ TxnIdle
    /\ ClientIdle

BuilderNext ==
    \/ \E c \in Columns : TqSelect(c)
    \/ \E t \in Tables, c \in Columns : TqInsertInto(t, c)
    \/ \E t \in Tables : TqUpdate(t)
    \/ \E t \in Tables : TqDeleteFrom(t)
    \/ \E t \in Tables : TqFrom(t)
    \/ \E c \in Columns : TqSet(c)
    \/ \E c \in Columns : TqValues(c)
    \/ \E c \in Conditions : TqWhere(c)
    \/ \E c \in Columns : TqOrderBy(c)
    \/ TqLimit
    \/ \E t \in Tables, c \in Conditions \ {<<>>} : TqJoin(t, c)
    \/ TqOffset
    \/ \E m \in DOMAIN JoinTypes, t \in Tables, c \in Conditions \ {<<>>} :
           TqNamedJoin(m, t, c)
    \/ \E c \in Columns : TqGroupBy(c)
    \/ \E c \in Conditions \ {<<>>} : TqHaving(c)
    \/ \E c \in Columns : TqReturning(c)
    \/ TqExecute

BuilderSpec == BuilderInit /\ [][BuilderNext]_vars

\* ========================================================= database_query
\* The dynamic builder: every method is accepted in every state; the starters
\* assign query_, the others append to it.  dq.wheres counts the where calls
\* that changed the text since the last starter or reset.

\* query_.find(" WHERE ") != npos.  Every appending method writes a space
\* before its keyword, so a text that does not begin with a starter's keyword
\* begins with a space: the word WHERE has a space on both sides wherever
\* another word follows it
FindWhere(text) == \E i \in 1..(Len(text) - 1) : text[i] = "WHERE"

DqOpen == Len(dq.chain) < MaxCalls

\* the two builders share no state: their chains are explored one at a time
TqTurn == dq.chain = <<>>

DqTurn == tq.chain = <<>> /\ tq.rejected = ""

DqCall(m, args, text, wheres) ==
    /\ DqOpen
    /\ dq' = [query_ |-> text, chain |-> Append(dq.chain, m),
              args |-> Append(dq.args, args), wheres |-> wheres]
    /\ UNCHANGED <<tq, notBuilderVars>>

DqSelect(columns) ==
    DqCall("select", <<columns>>, <<"SELECT">> \o columns, 0)

DqInsertInto(table, columns) ==
    DqCall("insert_into", <<table, columns>>,
           <<"INSERT", "INTO">> \o table \o <<"(">> \o columns \o <<")">>, 0)

DqUpdate(table) ==
    DqCall("update", <<table>>, <<"UPDATE">> \o table, 0)

DqSet(assignments) ==
    DqCall("set", <<assignments>>, dq.query_ \o <<"SET">> \o assignments, dq.wheres)

DqDeleteFrom(table) ==
    DqCall("delete_from", <<table>>, <<"DELETE", "FROM">> \o table, 0)

DqFrom(table) ==
    DqCall("from", <<table>>, dq.query_ \o <<"FROM">> \o table, dq.wheres)

\* mutant: where without the test for an empty condition
DqWhere_NoEmptyTest(condition) ==
    DqCall("where", <<condition>>,
           dq.query_
               \o (IF ~FindWhere(dq.query_) THEN <<"WHERE">> ELSE <<"AND">>)
               \o condition,
           dq.wheres + 1)

DqWhere(condition) ==
    IF condition = <<>>
    THEN DqCall("where", <<condition>>, dq.query_, dq.wheres)
    ELSE DqCall("where", <<condition>>,
                dq.query_
                    \o (IF ~FindWhere(dq.query_) THEN <<"WHERE">>
                                                 ELSE <<"AND">>)
                    \o condition,
                dq.wheres + 1)

DqOrderBy(column) ==
    DqCall("order_by", <<column>>,
           dq.query_ \o <<"ORDER", "BY">> \o column \o <<"ASC">>, dq.wheres)

DqLimit ==
    DqCall("limit", <<<<"1">>>>, dq.query_ \o <<"LIMIT", "1">>, dq.wheres)

DqOffset ==
    DqCall("offset", <<<<"1">>>>, dq.query_ \o <<"OFFSET", "1">>, dq.wheres)

DqJoin(table, condition) ==
    DqCall("join", <<table, condition>>,
           dq.query_ \o <<"INNER", "JOIN">> \o table \o <<"ON">> \o condition,
           dq.wheres)

DqGroupBy(columns) ==
    DqCall("group_by", <<columns>>,
           dq.query_ \o <<"GROUP", "BY">> \o columns, dq.wheres)

DqReset ==
    DqCall("reset", <<>>, <<>>, 0)

\* the methods the dynamic builder has in common with the static one
SharedNext ==
    \/ \E c \in Columns : DqSelect(c)
    \/ \E t \in Tables, c \in Columns : DqInsertInto(t, c)
    \/ \E t \in Tables : DqUpdate(t)
    \/ \E c \in Columns : DqSet(c)
    \/ \E t \in Tables : DqDeleteFrom(t)
    \/ \E t \in Tables : DqFrom(t)
    \/ \E c \in Conditions : DqWhere(c)
    \/ \E c \in Columns : DqOrderBy(c)
    \/ DqLimit
    \/ DqOffset
    \/ \E t \in Tables, c \in Conditions \ {<<>>} : DqJoin(t, c)
    \/ \E c \in Columns : DqGroupBy(c)

QueryNext ==
    \/ SharedNext
    \/ DqReset

WhereNext ==
    \/ TqTurn /\ BuilderNext
    \/ DqTurn /\ QueryNext

\* Both builders are given the same calls: the static builder is called
\* first, and the dynamic builder then receives the same method with the
\* same arguments
TqLeads == dq.chain = tq.chain

DqFollows ==
    /\ tq.rejected = ""
    /\ Len(dq.chain) < Len(tq.chain)
    /\ dq.chain = SubSeq(tq.chain, 1, Len(dq.chain))

SameCall ==
    /\ dq'.chain = SubSeq(tq.chain, 1, Len(dq'.chain))
    /\ dq'.args = SubSeq(tq.args, 1, Len(dq'.args))

EquivNext ==
    \/ TqLeads /\ BuilderNext
    \/ DqFollows /\ SharedNext /\ SameCall

EquivSpec == BuilderInit /\ [][EquivNext]_vars

WhereSpec == BuilderInit /\ [][WhereNext]_vars

\* ================================= database_connection: asynchronous execute
\* One connected database_connection with its io_context set.  The server
\* answers a command with one result per statement and stops at the first
\* statement that fails; libpq hands the results out one by one and then a
\* null pointer, and takes no new command before that null pointer was
\* fetched (PQsendQuery returns 0).

Statuses == {"PGRES_COMMAND_OK", "PGRES_TUPLES_OK", "PGRES_FATAL_ERROR"}

OkStatus(status) == status \in {"PGRES_COMMAND_OK", "PGRES_TUPLES_OK"}

\* the results of one command: an error result ends the command
ResultSeqs ==
    UNION {{rs \in [1..n -> Statuses] :
                \A i \in 1..(n - 1) : OkStatus(rs[i])} : n \in 1..MaxResults}

notAsyncVars == <<poolVars, retryVars, txnVars, builderVars, arg, connVars, proc>>

PgOpen == pg.pc = "idle" /\ pg.commands < MaxCommands

\* async_execute up to its co_await: PQsendQuery, refused while a command is
\* in progress
AsyncExecute(rs) ==
    /\ PgOpen
    /\ pg' = IF pg.active
             THEN [pg EXCEPT !.outcome = "send_failed",
                             !.commands = pg.commands + 1]
             ELSE [pc |-> "waiting", results |-> rs, arrived |-> 0,
                   active |-> TRUE, outcome |-> "none",
                   commands |-> pg.commands + 1]
    /\ UNCHANGED notAsyncVars

\* the socket becomes readable: one more result has been delivered
SocketReadable ==
    /\ pg.pc = "waiting"
    /\ pg.arrived < Len(pg.results)
    /\ pg' = [pg EXCEPT !.arrived = pg.arrived + 1]
    /\ UNCHANGED notAsyncVars

\* wait_for_result once PQisBusy is 0: the first result is fetched; on an
\* error status it is cleared and database_error is thrown; otherwise
\* PQgetResult is called until it returns null and the first result returned
WaitForResult ==
    /\ pg.pc = "waiting"
    /\ pg.arrived >= 1
    /\ pg' = IF OkStatus(pg.results[1])
             THEN [pg EXCEPT !.pc = "idle", !.results = <<>>, !.arrived = 0,
                             !.active = FALSE, !.outcome = "result"]
             ELSE [pg EXCEPT !.pc = "idle", !.results = Tail(pg.results),
                             !.arrived = pg.arrived - 1,
                             !.outcome = "error"]
    /\ UNCHANGED notAsyncVars

\* wait_for_result when PQconsumeInput returns 0: database_error is thrown
ConsumeInputFails ==
    /\ pg.pc = "waiting"
    /\ pg' = [pg EXCEPT !.pc = "idle", !.outcome = "consume_failed"]
    /\ UNCHANGED notAsyncVars

\* execute: PQexec discards what is left of an earlier command, sends the
\* query and returns its last result
PgExecute(rs) ==
    /\ PgOpen
    /\ pg' = [pc |-> "idle", results |-> <<>>, arrived |-> 0,
              active |-> FALSE,
              outcome |-> IF OkStatus(rs[Len(rs)]) THEN "result" ELSE "error",
              commands |-> pg.commands + 1]
    /\ UNCHANGED notAsyncVars

AsyncInit ==
    /\ PoolIdle
    /\ RetryIdle
    /\ TxnIdle
    /\ ClientIdle

AsyncNext ==
    \/ \E rs \in ResultSeqs : AsyncExecute(rs)
    \/ SocketReadable
    \/ WaitForResult
    \/ ConsumeInputFails
    \/ \E rs \in ResultSeqs : PgExecute(rs)

AsyncSpec == AsyncInit /\ [][AsyncNext]_vars

\* ============================================================== to_string
\* database_connection::to_string and database_stored_procedure::to_string,
\* the conversion of one execute_params / execute argument into its text.
\* A text is a sequence of characters and a type its C++ name; the value of
\* a std::optional is the empty sequence when it holds nothing and the
\* one-element sequence of its value otherwise.

Nullopt == <<>>
\* what a call that does not compile leaves in place of a text
IllFormed == <<"ill-formed">>

StringTypes == {"std::string", "const char*", "std::string_view"}
PlainTypes  == StringTypes \cup {"int", "bool"}
OptionalTypes == {"std::optional<std::string>", "std::optional<int>",
                  "std::optional<bool>"}

\* std::optional<T>::value_type
value_type(T) ==
    CASE T = "std::optional<std::string>" -> "std::string"
      [] T = "std::optional<int>" -> "int"
      [] T = "std::optional<bool>" -> "bool"
Types == PlainTypes \cup OptionalTypes

Strings == {<<>>, <<"a">>, <<"1">>, <<"t", "r", "u", "e">>}

ValuesOf(T) ==
    CASE T \in StringTypes -> Strings
      [] T = "int" -> (0 - MaxInt)..MaxInt
      [] T = "bool" -> BOOLEAN
      [] OTHER -> {}

\* the arguments a caller can pass
Arguments ==
    UNION {{[type |-> T, value |-> v] : v \in ValuesOf(T)} : T \in PlainTypes}
    \cup UNION {{[type |-> T, value |-> v] :
                     v \in {<<x>> : x \in ValuesOf(value_type(T))}
                               \cup {Nullopt}} :
                T \in OptionalTypes}

Digit(d) == <<"0", "1", "2", "3", "4", "5", "6", "7", "8", "9">>[d + 1]

RECURSIVE Digits(_)
Digits(n) == IF n < 10 THEN <<Digit(n)>>
             ELSE Append(Digits(n \div 10), Digit(n % 10))

\* std::to_string of an integer: its decimal digits after a minus sign
DecimalText(n) == IF n < 0 THEN <<"-">> \o Digits(0 - n) ELSE Digits(n)

\* std::to_string(value) for an arithmetic type: a bool is promoted to int
std_to_string(T, value) ==
    IF T = "bool" THEN DecimalText(IF value THEN 1 ELSE 0)
    ELSE DecimalText(value)

\* std::is_arithmetic_v<T>
is_arithmetic(T) == T \in {"int", "bool"}

\* requires { typename T::value_type; T{}.has_value(); }
IsOptional(T) == T \in OptionalTypes

\* the chain of if constexpr branches both functions share, in its order
to_string_plain(T, value) ==
    IF T = "std::string" THEN value
    ELSE IF T = "const char*" THEN value
    ELSE IF T = "std::string_view" THEN value
    ELSE IF is_arithmetic(T) THEN std_to_string(T, value)
    ELSE IF T = "bool"
         THEN (IF value THEN <<"t", "r", "u", "e">>
                        ELSE <<"f", "a", "l", "s", "e">>)
    ELSE IllFormed

\* database_connection::to_string
connection_to_string(T, value) ==
    IF IsOptional(T)
    THEN IF value = Nullopt THEN <<"N", "U", "L", "L">>
         ELSE to_string_plain(value_type(T), value[1])
    ELSE to_string_plain(T, value)

\* database_stored_procedure::to_string: no branch for std::optional, which
\* std::format cannot format
procedure_to_string(T, value) ==
    IF IsOptional(T) THEN IllFormed ELSE to_string_plain(T, value)

notParamVars == <<poolVars, retryVars, txnVars, builderVars, pg, connVars, proc>>

\* database_connection::execute_params converts an argument
ConnectionToString ==
    /\ arg.of = "database_connection"
    /\ arg.text = NotYet
    /\ arg' = [arg EXCEPT !.text = connection_to_string(arg.type, arg.value)]
    /\ UNCHANGED notParamVars

\* database_stored_procedure::execute converts an argument
ProcedureToString ==
    /\ arg.of = "database_stored_procedure"
    /\ arg.text = NotYet
    /\ arg' = [arg EXCEPT !.text = procedure_to_string(arg.type, arg.value)]
    /\ UNCHANGED notParamVars

ParamInit ==
    /\ PoolIdle
    /\ RetryIdle
    /\ TxnIdle
    /\ BuilderIdle
    /\ AsyncIdle
    /\ ConnIdle
    /\ ProcIdle
    /\ \E a \in Arguments,
          c \in {"database_connection", "database_stored_procedure"} :
           arg = [of |-> c, type |-> a.type, value |-> a.value,
                  text |-> NotYet]

ParamNext == ConnectionToString \/ ProcedureToString

ParamSpec == ParamInit /\ [][ParamNext]_vars

\* ================================================ database_connection: conn_
\* The objects of one owner and the handles they hold.  The handle an object
\* gets from PQconnectdb bears the object's number.  PQfinish frees a handle:
\* PQstatus of a freed handle is undefined and may report anything.

notConnVars == <<poolVars, retryVars, txnVars, builderVars, pg, arg, proc>>

CoAlive(o) == co[o].st = "alive"

\* PQstatus(h) == CONNECTION_OK
StatusOk(h, freed_reads_ok) ==
    IF hd.finished[h] > 0 THEN freed_reads_ok ELSE h \in hd.ok

\* is_connected(): conn_ && PQstatus(conn_) == CONNECTION_OK
is_connected(o, freed_reads_ok) ==
    /\ co[o].conn_ # NullHandle
    /\ StatusOk(co[o].conn_, freed_reads_ok)

\* PQfinish(h)
PQfinish(finished, h) == [finished EXCEPT ![h] = finished[h] + 1]

\* close() applied to a conn_ value: the finished counts after it
Closed(finished, conn_) ==
    IF conn_ # NullHandle THEN PQfinish(finished, conn_) ELSE finished

Op(name, o, s, h, t) ==
    [op |-> name, obj |-> o, src |-> s, touched |-> h, threw |-> t]

\* database_connection(conn_str): connect() keeps the handle when it is
\* CONNECTION_OK, and closes it and throws otherwise
CoConstruct(o, reachable) ==
    /\ co[o].st = "none"
    /\ IF reachable
       THEN /\ co' = [co EXCEPT ![o] = [st |-> "alive", conn_ |-> o]]
            /\ hd' = [hd EXCEPT !.created = hd.created \cup {o},
                                !.ok = hd.ok \cup {o},
                                !.last = Op("construct", o, 0, NullHandle,
                                            FALSE)]
       ELSE /\ co' = [co EXCEPT ![o] = [st |-> "gone", conn_ |-> NullHandle]]
            /\ hd' = [hd EXCEPT !.created = hd.created \cup {o},
                                !.finished = Closed(hd.finished, o),
                                !.last = Op("construct", o, 0, NullHandle,
                                            TRUE)]
    /\ UNCHANGED notConnVars

\* close()
CoClose(o) ==
    /\ CoAlive(o)
    /\ co' = [co EXCEPT ![o].conn_ = NullHandle]
    /\ hd' = [hd EXCEPT !.finished = Closed(hd.finished, co[o].conn_),
                        !.last = Op("close", o, 0, NullHandle, FALSE)]
    /\ UNCHANGED notConnVars

\* mutant: the move constructor copies conn_ and leaves the source as it is
CoMoveConstruct_Copy(d, s) ==
    /\ co[d].st = "none"
    /\ CoAlive(s)
    /\ co' = [co EXCEPT ![d] = [st |-> "alive", conn_ |-> co[s].conn_]]
    /\ hd' = [hd EXCEPT !.last = Op("move_construct", d, s, NullHandle, FALSE)]
    /\ UNCHANGED notConnVars

\* database_connection(database_connection&& other)
CoMoveConstruct(d, s) ==
    /\ co[d].st = "none"
    /\ CoAlive(s)
    /\ co' = [co EXCEPT ![d] = [st |-> "alive", conn_ |-> co[s].conn_],
                        ![s].conn_ = NullHandle]
    /\ hd' = [hd EXCEPT !.last = Op("move_construct", d, s, NullHandle, FALSE)]
    /\ UNCHANGED notConnVars

\* operator=(database_connection&& other), self-assignment included
CoMoveAssign(d, s) ==
    /\ CoAlive(d)
    /\ CoAlive(s)
    /\ IF d # s
       THEN /\ co' = [co EXCEPT ![d].conn_ = co[s].conn_,
                                ![s].conn_ = NullHandle]
            /\ hd' = [hd EXCEPT !.finished = Closed(hd.finished, co[d].conn_),
                                !.last = Op("move_assign", d, s, NullHandle,
                                            FALSE)]
       ELSE /\ co' = co
            /\ hd' = [hd EXCEPT !.last = Op("move_assign", d, s, NullHandle,
                                            FALSE)]
    /\ UNCHANGED notConnVars

\* ~database_connection()
CoDestroy(o) ==
    /\ CoAlive(o)
    /\ co' = [co EXCEPT ![o] = [st |-> "gone", conn_ |-> NullHandle]]
    /\ hd' = [hd EXCEPT !.finished = Closed(hd.finished, co[o].conn_),
                        !.last = Op("destroy", o, 0, NullHandle, FALSE)]
    /\ UNCHANGED notConnVars

\* execute(query): throws when is_connected() is false, else PQexec(conn_)
CoExecute(o, freed_reads_ok) ==
    /\ CoAlive(o)
    /\ co' = co
    /\ hd' = [hd EXCEPT !.last =
                  IF is_connected(o, freed_reads_ok)
                  THEN Op("execute", o, 0, co[o].conn_, FALSE)
                  ELSE Op("execute", o, 0, NullHandle, TRUE)]
    /\ UNCHANGED notConnVars

\* the server or the network ends a session: PQstatus turns CONNECTION_BAD
LinkDrops(h) ==
    /\ h \in hd.ok
    /\ hd.finished[h] = 0
    /\ hd' = [hd EXCEPT !.ok = hd.ok \ {h},
                        !.last = Op("link_drops", 0, 0, NullHandle, FALSE)]
    /\ UNCHANGED <<co, notConnVars>>

ConnInit ==
    /\ PoolIdle
    /\ RetryIdle
    /\ TxnIdle
    /\ ClientIdle

ConnNext ==
    \/ \E o \in ConnObjs, reachable \in BOOLEAN : CoConstruct(o, reachable)
    \/ \E o \in ConnObjs : CoClose(o)
    \/ \E d, s \in ConnObjs : CoMoveConstruct(d, s)
    \/ \E d, s \in ConnObjs : CoMoveAssign(d, s)
    \/ \E o \in ConnObjs : CoDestroy(o)
    \/ \E o \in ConnObjs, freed_reads_ok \in BOOLEAN :
           CoExecute(o, freed_reads_ok)
    \/ \E h \in ConnObjs : LinkDrops(h)

ConnSpec == ConnInit /\ [][ConnNext]_vars

\* ============================================= database_stored_procedure
\* One stored procedure object.  A value is the text to_string made of the
\* argument; the text of a call is kept as the numbers of its placeholders.

notProcVars == <<poolVars, retryVars, txnVars, builderVars, pg, arg, connVars>>

ParamValues == {"x", "y"}

ProcOpen == Len(proc.params_) < MaxParams

\* params_.push_back(procedure_param{name, value, direction})
PushParam(value, direction) ==
    /\ ProcOpen
    /\ proc' = [params_ |-> Append(proc.params_,
                                    [value |-> value, direction |-> direction]),
                executed |-> FALSE, placeholders |-> <<>>, values |-> <<>>]
    /\ UNCHANGED notProcVars

ProcAddParam(value) == PushParam(value, "in")

ProcAddOutParam == PushParam("", "out")

ProcAddInoutParam(value) == PushParam(value, "inout")

\* std::format("${}", i + 1) for the parameter at index i, counted from 0 in
\* the code and from 1 here: the number n of the placeholder $n
PlaceholderOf(i) == i

\* the loop of execute() over params_[1..n]: the placeholders and the values
\* of the parameters whose direction is not out
RECURSIVE Collect(_, _)
Collect(params, n) ==
    IF n = 0 THEN [placeholders |-> <<>>, values |-> <<>>]
    ELSE LET before == Collect(params, n - 1) IN
         IF params[n].direction # "out"
         THEN [placeholders |->
                   Append(before.placeholders,
                          PlaceholderOf(n)),
               values |-> Append(before.values, params[n].value)]
         ELSE before

\* execute(): "SELECT * FROM name()" through conn_.execute when no
\* placeholder was made, and otherwise "SELECT * FROM name($..., $...)"
\* through PQexecParams with param_values
ProcExecute ==
    /\ LET made == Collect(proc.params_, Len(proc.params_)) IN
       proc' = [proc EXCEPT !.executed = TRUE,
                            !.placeholders = made.placeholders,
                            !.values = made.values]
    /\ UNCHANGED notProcVars

\* clear_params()
ProcClearParams ==
    /\ proc.params_ # <<>>
    /\ proc' = [params_ |-> <<>>, executed |-> FALSE, placeholders |-> <<>>,
                values |-> <<>>]
    /\ UNCHANGED notProcVars

ProcInit ==
    /\ PoolIdle
    /\ RetryIdle
    /\ TxnIdle
    /\ ClientIdle

ProcNext ==
    \/ \E v \in ParamValues : ProcAddParam(v)
    \/ ProcAddOutParam
    \/ \E v \in ParamValues : ProcAddInoutParam(v)
    \/ ProcExecute
    \/ ProcClearParams

ProcSpec == ProcInit /\ [][ProcNext]_vars

\* ================================================================= claims
Running      == pool_state = "running"
IdleCount    == Len(available_connections_)
\* the lease objects that hold a connection, and the connections they hold
HeldLeases   == {x \in LiveLeases : x[1].conn_ # NoConn}
HeldConns    == {x[1].conn_ : x \in HeldLeases}
EmptyLeases  == {x \in LiveLeases : x[1].conn_ = NoConn}

\* C1: pool capacity -- in every reachable state of a constructed pool,
\* active_connections + available connections <= max_connections
\* (stated as claimed; refresh_all breaks it)
C1_PoolCapacity ==
    Running => active_connections_ + IdleCount <= max_connections

\* C2: lease exclusivity -- no two live leases wrap the same connection
\* identity, and no connection is both held by a lease and in the idle queue
C2_LeaseExclusivity ==
    /\ \A x, y \in HeldLeases : x # y => x[1].conn_ # y[1].conn_
    /\ \A x \in HeldLeases : x[1].conn_ \notin Range(available_connections_)

\* two leases hold connections, one taken from the idle queue the constructor
\* filled and one created by acquire, next to a lease that was moved from
C2_Witness ==
    /\ Running /\ min_connections = 1
    /\ Cardinality(HeldLeases) = 2
    /\ active_connections_ = 2
    /\ last_acquire = "lease"
    /\ EmptyLeases # {}

\* a lease that was returned after shutdown, and an acquire that was refused
C3_Witness ==
    /\ Running /\ shutdown_
    /\ last_acquire = "shutdown"
    /\ unreturned < active_connections_

\* C3: shutdown is terminal and idempotent -- once the flag is set it stays
\* set, the idle queue is and stays empty, no acquire issues a lease (every
\* acquire call or resumed waiter fails with the pool-shutdown error), and
\* a further shutdown() changes nothing
C3_ShutdownTerminal ==
    [][ /\ shutdown_ => shutdown_'
        /\ shutdown_' => available_connections_' = <<>>
        /\ shutdown_ =>
             /\ \A s \in LeaseStates : s.conn_ # NoConn => lease'[s] <= lease[s]
             /\ \A t \in Threads :
                   /\ (pc[t] \in InAcquire /\ pc'[t] = "idle")
                          => last_acquire' = "shutdown"
                   /\ AcquireCall(t) => (last_acquire' = "shutdown" /\ pc' = pc)
                   /\ pc'[t] # "waiting"
             /\ Shutdown => UNCHANGED vars
      ]_vars

\* both threads were inside acquire when shutdown ran and have been unblocked
C4_Witness ==
    /\ Running /\ shutdown_
    /\ \A t \in Threads : pc[t] = "woken"

\* C4: a thread that is inside acquire (blocked, or unblocked and not yet
\* running) when the pool is shut down does not stay blocked, and when it
\* leaves acquire it reports the pool-shutdown error, never a timeout
C4_ShutdownWakesWaiters ==
    [][ \A t \in Threads :
          (shutdown_' /\ pc[t] \in InAcquire) =>
              \/ pc'[t] = "woken"
              \/ pc'[t] = "idle" /\ last_acquire' = "shutdown"
      ]_vars

\* max_connections leases are outstanding and nothing is idle, on a running pool
Exhausted ==
    /\ Running /\ ~shutdown_
    /\ available_connections_ = <<>>
    /\ active_connections_ = max_connections
    /\ Cardinality(HeldLeases) = max_connections

\* an acquire has just timed out on an exhausted pool
C5_Witness ==
    /\ Exhausted
    /\ last_acquire = "timeout"

\* C5: exhaustion -- on a running pool with max_connections leases
\* outstanding and an empty idle queue, a pass of acquire made at or after
\* the deadline fails with the timeout error, a pass made before it blocks,
\* and either way the active and idle counts and the leases are unchanged
C5_ExhaustionTimeout ==
    [][ \A t \in Threads :
          /\ (Exhausted /\ pc[t] = "woken" /\ pc'[t] # "woken") =>
                /\ IF deadline_passed[t]
                   THEN pc'[t] = "idle" /\ last_acquire' = "timeout"
                   ELSE pc'[t] = "waiting" /\ last_acquire' = last_acquire
                /\ active_connections_' = max_connections
                /\ available_connections_' = <<>>
                /\ lease' = lease
          /\ (Exhausted /\ AcquireCall(t)) =>
                /\ \/ pc'[t] = "waiting" /\ ~deadline_passed'[t]
                   \/ pc'[t] = "idle" /\ last_acquire' = "timeout"
                /\ active_connections_' = max_connections
                /\ available_connections_' = <<>>
                /\ lease' = lease
      ]_vars

\* a blocked thread whose deadline passed has left acquire with a timeout
C6_Witness ==
    /\ Running /\ ~shutdown_
    /\ last_acquire = "timeout"
    /\ \E t \in Threads : pc[t] = "woken" /\ deadline_passed[t]

\* C6: every acquire call completes -- a thread inside acquire eventually
\* leaves it (with a lease or an error), and no thread stays blocked in
\* acquire after its deadline: a thread whose deadline has passed is taken out
\* of wait_until and never goes back into it. The first part is stated of
\* thread 1, which stands for every thread: acquire does not depend on which
\* thread runs it
C6_AcquireCompletes ==
    /\ (pc[1] \in InAcquire) ~> (pc[1] = "idle")
    /\ [][ \A t \in Threads :
             (deadline_passed[t] /\ pc[t] # "waiting") => pc'[t] # "waiting" ]_vars

\* connections a thread entering acquire could be given at once: the idle
\* ones plus the ones it may create below max_connections
Assignable ==
    IdleCount + (IF active_connections_ + IdleCount < max_connections
                 THEN max_connections - (active_connections_ + IdleCount)
                 ELSE 0)

\* C7: no lost wake-up -- on a running pool no thread is blocked in acquire
\* before its deadline while a connection is assignable (idle, or creatable
\* under max_connections) that no unblocked thread is about to take
\* (stated as claimed; a woken thread whose create_connection throws leaves
\* the slot free without waking anyone)
C7_NoLostWakeup ==
    (Running /\ ~shutdown_) =>
        \A t \in Threads :
            (pc[t] = "waiting" /\ ~deadline_passed[t]) =>
                Assignable <= Cardinality({u \in Threads : pc[u] = "woken"})

\* every lease has been let go, one of them through a moved-from object
C8_Witness ==
    /\ Running
    /\ unreturned = 0
    /\ last_acquire = "lease"
    /\ active_connections_ = 0
    /\ available_connections_ # <<>>
    /\ EmptyLeases # {}

\* C8: exactly one return callback per lease -- the leases issued by acquire
\* whose callback has not run are exactly the lease objects that hold a
\* connection, across move construction, move assignment and destruction;
\* an empty (default-constructed or moved-from) lease never runs the callback
C8_ReturnExactlyOnce ==
    /\ unreturned = Cardinality(HeldLeases)
    /\ \A x \in HeldLeases : x[1].returner_

\* C9: active-count accounting -- in every reachable state, before and
\* after shutdown, active_connections equals the number of outstanding
\* leases (stated as claimed; return_connection stops counting once the pool
\* is shut down)
C9_ActiveIsOutstanding ==
    Running => active_connections_ = Cardinality(HeldLeases)

\* the constructor raised after creating part of the connections
C10_Witness ==
    /\ pool_state = "threw"
    /\ shutdown_
    /\ creation_failed
    /\ min_connections <= max_connections

\* C10: construction is all-or-nothing -- min > max is rejected before any
\* connection is created; without a creation failure the pool starts with
\* exactly min_connections idle (distinct, connected) and 0 active; with a
\* creation failure the constructor raises and leaves the pool shut down
\* with an empty idle queue
C10_ConstructAllOrNothing ==
    [][ (pool_state = "none" /\ pool_state' # "none") =>
          /\ min_connections > max_connections =>
                /\ pool_state' = "threw"
                /\ available_connections_' = <<>>
                /\ connected' = {}
          /\ pool_state' = "running" =>
                /\ min_connections <= max_connections
                /\ ~creation_failed'
                /\ ~shutdown_'
                /\ Len(available_connections_') = min_connections
                /\ Cardinality(Range(available_connections_')) = min_connections
                /\ Range(available_connections_') \subseteq connected'
                /\ active_connections_' = 0
          /\ (min_connections <= max_connections /\ pool_state' = "threw") =>
                /\ creation_failed'
                /\ shutdown_'
                /\ available_connections_' = <<>>
          /\ (min_connections <= max_connections /\ ~creation_failed') =>
                pool_state' = "running"
      ]_vars

\* C11 as claimed: reuse bound -- with healthy connections and only
\* acquire/release, at most max_connections connections ever exist (so at
\* most that many identities are touched), and a connection is created by
\* acquire only while some lease is outstanding: a caller that holds at most
\* one lease at a time never makes the pool grow beyond the initial min
\* (refuted by a pool built with min_connections = 0)
C11_ReuseBound ==
    /\ [](Running => created <= max_connections)
    /\ [][ (Running /\ created' > created) => active_connections_ >= 1 ]_vars

\* max_connections connections were created, some by acquire, all were
\* leased, and every lease is back in the idle queue
C11_Witness ==
    /\ Running /\ ~shutdown_
    /\ min_connections < max_connections
    /\ created = max_connections
    /\ active_connections_ = 0
    /\ IdleCount = max_connections
    /\ last_acquire = "lease"

\* C11 amended: at most max_connections connections ever exist, and acquire
\* creates a connection only while some lease is outstanding, except for
\* the first connection of a pool built with min_connections = 0
C11_ReuseBoundAmended ==
    /\ [](Running => created <= max_connections)
    /\ [][ (Running /\ created' > created) =>
              \/ active_connections_ >= 1
              \/ min_connections = 0 /\ created = 0 ]_vars

TxnOperation(i) ==
    \/ TxnCommit(i)
    \/ TxnRollback(i)
    \/ \E n \in Savepoints : TxnCreateSavepoint(i, n)
    \/ TxnExecute(i)

\* C13: on a transaction object that is committed or rolled back, every
\* commit(), rollback(), create_savepoint() and execute() fails with a state
\* error, passes no command to the connection and changes neither the flags
\* nor the server's state; an object that is committed or rolled back stays
\* so for as long as it lives
C13_TerminalStates ==
    /\ [][ \A i \in TxnObjs :
             (txn[i].st = "live" /\ (txn[i].committed_ \/ txn[i].rolled_back_)
              /\ TxnOperation(i))
             => /\ outcome' = "state_error"
                /\ sent' = NoCmd
                /\ txn' = txn
                /\ sp' = sp
                /\ <<srv_txn, srv_work, srv_committed>>' =
                   <<srv_txn, srv_work, srv_committed>> ]_vars
    /\ [][ \A i \in TxnObjs :
             (txn[i].st = "live" /\ (txn[i].committed_ \/ txn[i].rolled_back_)
              /\ txn'[i].st = "live")
             => (txn'[i].committed_ \/ txn'[i].rolled_back_) ]_vars

\* C13 witness: after a statement was executed and the transaction rolled
\* back, an operation on it has just failed with the state error
C13_Witness ==
    /\ txn[1].st = "live" /\ txn[1].rolled_back_ /\ ~txn[1].committed_
    /\ outcome = "state_error" /\ sent = NoCmd
    /\ writes >= 1 /\ srv_txn = "none"

\* ------------------------------------------------------------------- C14
\* C14: the committed and rolled-back flags of a transaction object are
\* never both true, whether or not the object has been moved from
C14_FlagsExclusive ==
    \A i \in TxnObjs :
        txn[i].st = "live" => ~(txn[i].committed_ /\ txn[i].rolled_back_)

\* ------------------------------------------------------------------- C15
\* the scope of the transaction has ended: the constructed object and every
\* object it was moved to have been destroyed
ScopeEnded ==
    /\ txn[1].st = "gone"
    /\ \A i \in TxnObjs : txn[i].st # "live"

\* a destructor returns, with or without an error it swallowed
DestructorsReturn ==
    [][ \A i \in TxnObjs : TxnDestroy(i) => outcome' \in {"ok", "suppressed"} ]_vars

\* C15: when the scope of a constructed transaction has ended, exactly one
\* COMMIT or ROLLBACK has taken effect for its BEGIN, and no destructor
\* propagated an error
C15_ExactlyOne ==
    /\ [](ScopeEnded => finalized = 1)
    /\ DestructorsReturn

\* C15 amended: never more than one COMMIT or ROLLBACK takes effect, exactly
\* one has when the scope ends with the connection still valid, and no
\* destructor propagates an error
C15_ExactlyOneAmended ==
    /\ [](finalized <= 1)
    /\ []((ScopeEnded /\ srv_up) => finalized = 1)
    /\ DestructorsReturn

\* C15 witness: the transaction was moved, the moved-from object was
\* destroyed without a command and the destructor of the object moved to
\* issued the ROLLBACK that took effect
C15_Witness ==
    /\ ScopeEnded /\ srv_up
    /\ txn[2].st = "gone"
    /\ finalized = 1
    /\ sent = Cmd("ROLLBACK", 0) /\ outcome = "ok"

\* ------------------------------------------------------------------- C16
\* C16: the destructor of a savepoint that was not released issues ROLLBACK
\* TO SAVEPOINT for its name and returns whatever the command's result is:
\* no failure leaves the destructor
C16_DestructorSuppresses ==
    [][ \A n \in Savepoints :
          (SpDestroy(n) /\ ~sp[n].released_)
          => /\ sent' = Cmd("ROLLBACK TO", n)
             /\ outcome' \in {"ok", "suppressed"} ]_vars

\* ------------------------------------------------------------------- C17
\* once a release() has succeeded, release() sends nothing and does not fail
LaterReleaseSilent ==
    [][ \A n \in Savepoints :
          (SpRelease(n) /\ sp[n].released_)
          => /\ sent' = NoCmd
             /\ outcome' = "ok"
             /\ sp' = sp ]_vars

\* the destructor of a released savepoint sends nothing
ReleasedDestructorSilent ==
    [][ \A n \in Savepoints :
          (SpDestroy(n) /\ sp[n].released_)
          => /\ sent' = NoCmd
             /\ outcome' = "ok" ]_vars

RollbackRepeats ==
    [][ \A n \in Savepoints :
          (SpRollback(n) /\ ~sp[n].released_ /\ srv_up
           /\ sent = Cmd("ROLLBACK TO", n) /\ outcome = "ok")
          => outcome' = "ok" ]_vars

LostWrites == (1..writes) \ (WritesOf(srv_work) \cup srv_committed)

\* the writes of the block made before savepoint n was created: those that
\* stand before its SAVEPOINT command in the block
WritesBefore(n) ==
    {srv_work[k][2] : k \in {j \in 1..Len(srv_work) :
        /\ IsWrite(srv_work[j])
        /\ \E m \in (j + 1)..Len(srv_work) : srv_work[m] = <<"sp", n>>}}

C20_Bracket ==
    /\ (wt_pc = "exit" /\ wt_error = "none")
       => (txn[1].committed_ /\ ~txn[1].rolled_back_)
    /\ (wt_pc = "done" /\ wt_error \notin {"begin", "commit_state"})
       => (wt_error \in {"none", "unit", "commit"} /\ finalized = 1)

\* ------------------------------------------------------------------- C21
\* the words of a text
Words(text) == {text[i] : i \in 1..Len(text)}

\* method m has just been accepted on the static builder
TqAccepted(m) ==
    /\ Len(tq'.chain) = Len(tq.chain) + 1
    /\ tq'.chain[Len(tq'.chain)] = m

\* method m has just been rejected on the static builder
TqRejected(m) == tq.rejected = "" /\ tq'.rejected = m

\* the text holds the clause its statement needs: FROM for SELECT, VALUES for
\* INSERT, SET for UPDATE, DELETE FROM for DELETE
RequiredClause(text) ==
    /\ text # <<>>
    /\ \/ text[1] = "SELECT" /\ "FROM" \in Words(text)
       \/ text[1] = "INSERT" /\ "VALUES" \in Words(text)
       \/ text[1] = "UPDATE" /\ "SET" \in Words(text)
       \/ text[1] = "DELETE" /\ Len(text) >= 2 /\ text[2] = "FROM"

\* C21: execute is accepted on the static builder exactly when the text built
\* so far holds the clause its statement needs, and is rejected before that
\* clause was added
C21_ExecuteNeedsClause ==
    [][ /\ TqAccepted("execute") => RequiredClause(tq.query_)
        /\ TqRejected("execute") => ~RequiredClause(tq.query_) ]_vars

\* C21 witness: execute was accepted at the end of update, set, where
C21_Witness ==
    /\ tq.chain = <<"update", "set", "where", "execute">>
    /\ tq.rejected = ""
    /\ tq.query_ = <<"UPDATE", "t", "SET", "c", "WHERE", "a">>

\* ------------------------------------------------------------------- C22
\* how many times method m was accepted in a chain
Count(chain, m) == Cardinality({i \in 1..Len(chain) : chain[i] = m})

\* the starter of a chain, "" when none was called
Starter(chain) == IF chain = <<>> THEN "" ELSE chain[1]

\* C22: from is accepted only after select or delete_from with has-from
\* false, set only after update, values only after insert_into, and no
\* accepted chain holds two from, two set, two values, or a from after
\* delete_from
C22_SingleUse ==
    /\ [][ /\ TqAccepted("from") =>
                /\ Starter(tq.chain) \in {"select", "delete_from"}
                /\ ~HasFrom(tq.State)
           /\ TqAccepted("set") => Starter(tq.chain) = "update"
           /\ TqAccepted("values") => Starter(tq.chain) = "insert_into" ]_vars
    /\ [](/\ Count(tq.chain, "from") <= 1
          /\ Count(tq.chain, "set") <= 1
          /\ Count(tq.chain, "values") <= 1
          /\ Starter(tq.chain) = "delete_from" => Count(tq.chain, "from") = 0)

\* C22 witness: a second from was rejected after select, from
C22_Witness == tq.chain = <<"select", "from">> /\ tq.rejected = "from"

\* ------------------------------------------------------------------- C23
Starters == {"select", "insert_into", "update", "delete_from"}

\* C23: a starter is accepted only in the initial state (kind none, every
\* flag false); a chosen kind never changes and no flag goes from true back
\* to false; delete_from yields has-from true at once
C23_Monotonic ==
    [][ /\ \A m \in Starters :
               TqAccepted(m) =>
                   tq.State = [query_type |-> "no_query_tag",
                               has_from |-> FALSE, has_where |-> FALSE,
                               has_set |-> FALSE, has_values |-> FALSE]
        /\ tq.State.query_type # "no_query_tag" =>
               tq'.State.query_type = tq.State.query_type
        /\ tq.State.has_from => tq'.State.has_from
        /\ tq.State.has_where => tq'.State.has_where
        /\ tq.State.has_set => tq'.State.has_set
        /\ tq.State.has_values => tq'.State.has_values
        /\ TqAccepted("delete_from") =>
               /\ tq'.State.query_type = "delete_query_tag"
               /\ tq'.State.has_from ]_vars

\* C23 witness: select was rejected on a delete chain whose has-from and
\* has-where flags are set
C23_Witness ==
    /\ tq.chain = <<"delete_from", "where">>
    /\ tq.rejected = "select"
    /\ tq.State.query_type = "delete_query_tag"
    /\ tq.State.has_from /\ tq.State.has_where

\* ------------------------------------------------------------------- C24
\* a kind has been chosen and has-from is true
KindAndFrom == tq.State.query_type # "no_query_tag" /\ tq.State.has_from

\* C24: where is accepted exactly when a kind has been chosen and has-from
\* is true, whatever has-where is; it is rejected on a select chain before
\* from and on an update chain before set
C24_WhereGate ==
    [][ /\ TqAccepted("where") => KindAndFrom
        /\ TqRejected("where") => ~KindAndFrom
        /\ Starter(tq.chain) = "select" /\ Count(tq.chain, "from") = 0
               => ~TqAccepted("where")
        /\ Starter(tq.chain) = "update" /\ Count(tq.chain, "set") = 0
               => ~TqAccepted("where") ]_vars

\* C24 witness: a second where was accepted after update, set, where
C24_Witness ==
    /\ tq.chain = <<"update", "set", "where", "where">>
    /\ tq.rejected = ""
    /\ tq.State.has_where

\* ------------------------------------------------------------------- C25
\* C25: no accepted chain that starts with insert_into holds a where call,
\* before or after values
C25_NoWhereOnInsert ==
    Starter(tq.chain) = "insert_into" => Count(tq.chain, "where") = 0

\* ------------------------------------------------------------------- C26
\* the words the step appended to the static builder's text
TqAppended == SubSeq(tq'.query_, Len(tq.query_) + 1, Len(tq'.query_))

\* the words the step appended to the dynamic builder's text
DqAppended == SubSeq(dq'.query_, Len(dq.query_) + 1, Len(dq'.query_))

\* the step is a where call with a non-empty condition on the dynamic builder
DqWhereCalled ==
    /\ Len(dq'.chain) = Len(dq.chain) + 1
    /\ dq'.chain[Len(dq'.chain)] = "where"
    /\ dq'.wheres = dq.wheres + 1

\* C26: on both builders the first where call of a chain with a non-empty
\* condition c appends WHERE c and every later one appends AND c
C26_WhereAccumulation ==
    [][ /\ TqAccepted("where") /\ tq'.query_ # tq.query_ \o <<"WHERE">>
               /\ tq'.query_ # tq.query_ \o <<"AND">> =>
            \E c \in Conditions \ {<<>>} :
                TqAppended = (IF Count(tq.chain, "where") = 0
                              THEN <<"WHERE">> ELSE <<"AND">>) \o c
        /\ DqWhereCalled =>
            \E c \in Conditions \ {<<>>} :
                /\ dq'.query_ = dq.query_ \o DqAppended
                /\ DqAppended = (IF dq.wheres = 0
                                 THEN <<"WHERE">> ELSE <<"AND">>) \o c ]_vars

\* ------------------------------------------------------------------- C27
\* the step ends an asynchronous execute with a result or with the error of
\* an error-status result
AsyncFinished ==
    /\ pg.pc = "waiting"
    /\ pg'.pc = "idle"
    /\ pg'.outcome \in {"result", "error"}

\* C27: when an asynchronous execute finishes with a result or with an
\* error-status failure, every result of the command has been consumed and
\* no command is in progress on the connection
C27_AsyncDrained ==
    [][AsyncFinished => pg'.results = <<>> /\ ~pg'.active]_vars

\* ------------------------------------------------------------------- C28
\* the conversion table: a string passes through, a boolean becomes true or
\* false, any other numeric its decimal text, an absent optional NULL and a
\* present one the text of its value
TableText(T, value) ==
    CASE T \in StringTypes -> value
      [] T = "bool" -> IF value THEN <<"t", "r", "u", "e">>
                                ELSE <<"f", "a", "l", "s", "e">>
      [] T = "int" -> DecimalText(value)

Table(T, value) ==
    IF T \in OptionalTypes
    THEN IF value = Nullopt THEN <<"N", "U", "L", "L">>
         ELSE TableText(value_type(T), value[1])
    ELSE TableText(T, value)

\* C28: every converted argument has the text the conversion table gives for
\* its type; a boolean is never rendered by the numeric rule
C28_ConversionTable ==
    arg.text # NotYet => arg.text = Table(arg.type, arg.value)

\* ------------------------------------------------------------------- C29
\* the live objects whose conn_ is handle h
Holders(h) == {o \in ConnObjs : co[o].st = "alive" /\ co[o].conn_ = h}

\* object o reports connected: it holds a handle that was not released and
\* whose session is up
Connected(o) ==
    /\ co[o].conn_ # NullHandle
    /\ hd.finished[co[o].conn_] = 0
    /\ co[o].conn_ \in hd.ok

\* a handle is held by one live object and not released, or held by none and
\* released once
ReleasedOnce ==
    \A h \in hd.created :
        \/ hd.finished[h] = 0 /\ Cardinality(Holders(h)) = 1
        \/ hd.finished[h] = 1 /\ Holders(h) = {}

\* C29: over close, move construction, move assignment and destruction each
\* handle is released exactly once; close on a closed or moved-from object
\* does nothing; after close, and after being moved from, the object is not
\* connected, and execute on it throws without passing a handle to libpq
C29_ReleasedOnce ==
    /\ []ReleasedOnce
    /\ [][ LET l == hd'.last IN
           /\ l.op = "close" /\ co[l.obj].conn_ = NullHandle =>
                  co' = co /\ hd'.finished = hd.finished
           /\ \A o \in ConnObjs :
                  l.op = "close" /\ l.obj = o => ~Connected(o)'
           /\ \A o \in ConnObjs :
                  /\ l.op \in {"move_construct", "move_assign"}
                  /\ l.src = o
                  /\ l.obj # o
                  => ~Connected(o)'
           /\ l.op = "execute" /\ co[l.obj].conn_ = NullHandle =>
                  /\ l.threw
                  /\ l.touched = NullHandle
                  /\ hd'.finished = hd.finished ]_vars

\* C29 witness: the handle of object 1 was moved into object 2, object 1 was
\* closed and asked to execute, which threw, and the handle was released once
\* when object 2 was destroyed
C29_Witness ==
    /\ co[1].st = "alive" /\ co[1].conn_ = NullHandle
    /\ co[2].st = "gone"
    /\ hd.created = {1}
    /\ hd.finished[1] = 1
    /\ hd.last = Op("execute", 1, 0, NullHandle, TRUE)

\* ------------------------------------------------------------------- C30
\* the connections in the idle queue
Idle == {available_connections_[i] : i \in 1..Len(available_connections_)}

\* the step destroys a lease in state s that returns its connection to a
\* running pool
ReturnsToRunning(s) ==
    /\ s.conn_ # NoConn
    /\ s.returner_
    /\ lease'[s] < lease[s]
    /\ unreturned' = unreturned - 1
    /\ ~shutdown_

\* C30: on a running pool a returned connection is appended to the back of
\* the idle queue when it is connected, and is dropped without entering the
\* queue when it is not; a connection enters the idle queue only while it
\* is connected
C30_ReturnIffConnected ==
    [][ /\ \A s \in LeaseStates :
               ReturnsToRunning(s) =>
                   IF s.conn_ \in connected
                   THEN available_connections_' =
                            Append(available_connections_, s.conn_)
                   ELSE /\ available_connections_' = available_connections_
                        /\ s.conn_ \notin Idle'
        /\ \A c \in ConnIds : c \in Idle' \ Idle => c \in connected' ]_vars

\* C30 witness: on a running pool that started empty, two connections were
\* created by acquire and both leases are back; the one that had lost its
\* session was dropped, the other is the idle queue
C30_Witness ==
    /\ pool_state = "running" /\ ~shutdown_
    /\ min_connections = 0
    /\ created = 2
    /\ active_connections_ = 0
    /\ unreturned = 0
    /\ \E c \in ConnIds :
           /\ available_connections_ = <<c>>
           /\ connected = {c}

\* ------------------------------------------------------------------- C31
\* the step is an acquire that issues a lease for the connection at the
\* front of the idle queue
IssuedFromIdle ==
    /\ available_connections_ # <<>>
    /\ available_connections_' = Tail(available_connections_)
    /\ unreturned' = unreturned + 1

\* C31: with validate_on_acquire set, every lease that acquire issues from
\* the idle queue wraps a connected connection: one that fails the probe is
\* reset and, when still not live, replaced
C31_ValidatedLease ==
    [][ validate_on_acquire /\ IssuedFromIdle =>
            \E s \in LeaseStates :
                /\ lease'[s] = lease[s] + 1
                /\ s.conn_ \in connected' ]_vars

\* ------------------------------------------------------------------- C32
\* the positions of the idle queue that hold a connected connection
HealthyAt == {i \in 1..Len(available_connections_) :
                  available_connections_[i] \in connected}

\* the j-th smallest element of a set of numbers
Nth(H, j) == CHOOSE i \in H : Cardinality({m \in H : m < i}) = j - 1

\* C32: maintain on a running pool returns the number of idle connections
\* that are not connected, keeps the connected ones at the front of the
\* queue in their order, and appends newly created connections, none when
\* active + idle has reached min_connections and never more than the
\* shortfall; active count and leases are unchanged; on a shut-down pool it
\* changes nothing and returns 0
C32_Maintain ==
    [][ /\ pc' = pc
        /\ unreturned' = unreturned
        /\ shutdown_' = shutdown_
        /\ pool_state = "running"
        /\ connected \subseteq connected'
        /\ MaintainReturns
        =>
          IF shutdown_
          THEN /\ removed' = 0
               /\ UNCHANGED <<queueVars, connected, created, lease>>
          ELSE LET kept   == Cardinality(HealthyAt)
                   made   == created' - created
                   total  == active_connections_ + kept
               IN /\ removed' = Len(available_connections_) - kept
                  /\ Len(available_connections_') = kept + made
                  /\ \A j \in 1..kept :
                         available_connections_'[j] =
                             available_connections_[Nth(HealthyAt, j)]
                  /\ \A j \in 1..made :
                         available_connections_'[kept + j] = created + j
                  /\ made >= 0
                  /\ total >= min_connections => made = 0
                  /\ total < min_connections => total + made <= min_connections
                  /\ connected' = connected \cup ((created + 1)..created')
                  /\ UNCHANGED <<active_connections_, lease>> ]_vars

\* C32 witness: the only idle connection of a pool with min_connections = 1
\* had lost its session; maintain removed it, returned 1 and created the
\* connection that is now idle
C32_Witness ==
    /\ pool_state = "running" /\ ~shutdown_
    /\ min_connections = 1
    /\ removed = 1
    /\ created = 2
    /\ available_connections_ = <<2>>
    /\ connected = {2}
    /\ active_connections_ = 0

\* ------------------------------------------------------------------- C33
\* C33: refresh_all on a running pool leaves in the idle queue exactly the
\* connections it created, at most min_connections of them and
\* min_connections when no creation fails, and none that was idle before,
\* whatever the number of leases; the active count and the leases are
\* unchanged and every blocked waiter is woken
C33_RefreshAll ==
    [][ /\ unreturned' = unreturned
        /\ pool_state = "running"
        /\ ~shutdown_
        /\ RefreshAll
        =>
          LET made == created' - created
          IN /\ made \in 0..min_connections
             /\ available_connections_' = [j \in 1..made |-> created + j]
             /\ Idle' \cap Idle = {}
             /\ UNCHANGED <<active_connections_, lease>>
             /\ \A t \in Threads : pc[t] = "waiting" => pc'[t] = "woken" ]_vars

\* C33 witness: refresh_all has filled the idle queue with min_connections
\* new connections while max_connections leases are outstanding
C33_Witness ==
    /\ pool_state = "running" /\ ~shutdown_
    /\ min_connections >= 1
    /\ active_connections_ = max_connections
    /\ Len(available_connections_) = min_connections
    /\ \A c \in Idle : c \in connected /\ c > max_connections

\* ------------------------------------------------------------------- C34
SelectModifiers == {"order_by", "limit", "offset", "join", "inner_join",
                    "left_join", "right_join", "full_join", "group_by",
                    "having"}

\* the kind is select and has-from is true
SelectWithFrom ==
    tq.State.query_type = "select_query_tag" /\ tq.State.has_from

\* the kind is insert, update or delete
ModifyingKind ==
    tq.State.query_type \in {"insert_query_tag", "update_query_tag",
                             "delete_query_tag"}

\* C34: order_by, limit, offset, the joins, group_by and having are accepted
\* exactly when the kind is select and has-from is true, returning exactly
\* for the insert, update and delete kinds, and each leaves the kind and
\* every flag as they were
C34_ModifiersKeepState ==
    [][ /\ \A m \in SelectModifiers :
               /\ TqAccepted(m) => SelectWithFrom /\ tq'.State = tq.State
               /\ TqRejected(m) => ~SelectWithFrom
        /\ TqAccepted("returning") => ModifyingKind /\ tq'.State = tq.State
        /\ TqRejected("returning") => ~ModifyingKind ]_vars

\* C34 witness: on a select chain after from, limit was accepted and then
\* order_by after it, and the state is still that of select plus from
C34_Witness ==
    /\ Len(tq.chain) >= 4
    /\ SubSeq(tq.chain, 1, 4) = <<"select", "from", "limit", "order_by">>
    /\ tq.rejected = ""
    /\ tq.State = query_state("select_query_tag", TRUE, FALSE, FALSE, FALSE)

\* ------------------------------------------------------------------- C35
\* method m has just been called on the dynamic builder
DqCalled(m) == dq'.chain = Append(dq.chain, m)

\* the arguments of the call the step made on the dynamic builder
DqArgs == dq'.args[Len(dq'.args)]

\* every method of the dynamic builder can be called now
DqAcceptsAll ==
    /\ \A c \in Columns :
           /\ ENABLED DqSelect(c) /\ ENABLED DqSet(c)
           /\ ENABLED DqOrderBy(c) /\ ENABLED DqGroupBy(c)
    /\ \A t \in Tables :
           /\ \A c \in Columns : ENABLED DqInsertInto(t, c)
           /\ ENABLED DqUpdate(t) /\ ENABLED DqDeleteFrom(t)
           /\ ENABLED DqFrom(t)
           /\ \A c \in Conditions : ENABLED DqJoin(t, c)
    /\ \A c \in Conditions : ENABLED DqWhere(c)
    /\ ENABLED DqLimit /\ ENABLED DqOffset /\ ENABLED DqReset

\* C35: the dynamic builder's where leaves the text alone for an empty
\* condition, appends WHERE and the condition when the text holds no
\* " WHERE " yet and AND and the condition when it does; every method can be
\* called in every state; and a starter replaces the whole text
C35_DynamicWhere ==
    /\ [](DqOpen => DqAcceptsAll)
    /\ [][ /\ DqCalled("where") =>
                  IF DqArgs[1] = <<>>
                  THEN dq'.query_ = dq.query_
                  ELSE dq'.query_ =
                           dq.query_
                               \o (IF FindWhere(dq.query_) THEN <<"AND">>
                                                           ELSE <<"WHERE">>)
                               \o DqArgs[1]
           /\ DqCalled("select") => dq'.query_ = <<"SELECT">> \o DqArgs[1]
           /\ DqCalled("insert_into") =>
                  dq'.query_ = <<"INSERT", "INTO">> \o DqArgs[1] \o <<"(">>
                                   \o DqArgs[2] \o <<")">>
           /\ DqCalled("update") => dq'.query_ = <<"UPDATE">> \o DqArgs[1]
           /\ DqCalled("delete_from") =>
                  dq'.query_ = <<"DELETE", "FROM">> \o DqArgs[1] ]_vars

\* C35 witness: from was called before any starter, the first where appended
\* WHERE and the second AND
C35_Witness ==
    /\ dq.chain = <<"from", "where", "where">>
    /\ dq.query_ = <<"FROM", "t", "WHERE", "a", "AND", "b">>

\* ------------------------------------------------------------------- C36
\* the methods both builders have
SharedMethods == {"select", "update", "delete_from", "insert_into", "from",
                  "set", "where", "order_by", "limit", "offset", "join",
                  "group_by"}

\* the static builder accepted every call of a chain of shared methods with
\* non-empty arguments, and the dynamic builder was given the same calls
SameAcceptedCalls ==
    /\ tq.rejected = ""
    /\ tq.chain # <<>>
    /\ dq.chain = tq.chain
    /\ dq.args = tq.args
    /\ \A i \in 1..Len(tq.chain) :
           /\ tq.chain[i] \in SharedMethods
           /\ \A j \in 1..Len(tq.args[i]) : tq.args[i][j] # <<>>

\* C36: given the same accepted calls of shared methods with non-empty
\* arguments, the two builders hold the same text
C36_BuilderEquivalence ==
    SameAcceptedCalls => dq.query_ = tq.query_

\* ------------------------------------------------------------------- C37
\* the step is try_reconnect() returning true: reset restored the session,
\* or it did not and the reconnect callback delivered a connected connection
ReconnectedOk ==
    /\ rt_reconnector
    /\ reconnects' = reconnects + 1
    /\ rt_conn' = "up"

Total == active_connections_ + Len(available_connections_)

\* the connections maintain() has to add
MaintainNeeded ==
    LET total == active_connections_ + Cardinality(HealthyAt)
    IN IF total < min_connections THEN min_connections - total ELSE 0

\* the step is a maintain() or refresh_all() call in which a creation failed
CreationFailedNow ==
    /\ lease' = lease /\ active_connections_' = active_connections_
    /\ \/ created' - created < MaintainNeeded /\ Maintain
       \/ created' - created < min_connections /\ RefreshAll

\* the step returns a lease's connection that is no longer connected
DeadReturn ==
    /\ lease' # lease
    /\ \E s \in LeaseStates :
           /\ s.conn_ # NoConn /\ s.returner_ /\ s.conn_ \notin connected
           /\ LeaseDestroy(s)

\* the pool was built without a creation failure and is running after the step
RunningAfter ==
    /\ pool_state' = "running" /\ ~shutdown_' /\ ~creation_failed'
    /\ ~CreationFailedNow

\* C38 as claimed: on a running pool built without creation failures no
\* constructor, acquire, lease return, maintain or refresh_all step without a
\* creation failure takes active + idle below min_connections
C38_MinimumKept ==
    [][ (RunningAfter /\ (pool_state = "running" => Total >= min_connections))
            => Total' >= min_connections ]_vars

\* C38 amended: as claimed for every step but the return of a dead
\* connection, which lowers active + idle by one; maintain and refresh_all
\* without a creation failure bring it back to min_connections or more
C38_MinimumKeptAmended ==
    [][ RunningAfter =>
          /\ (~DeadReturn /\ (pool_state = "running" => Total >= min_connections))
                 => Total' >= min_connections
          /\ DeadReturn => Total' = Total - 1
          /\ (pool_state = "running" /\ lease' = lease
                  /\ active_connections_' = active_connections_
                  /\ (Maintain \/ RefreshAll))
                 => Total' >= min_connections ]_vars

\* C38 witness: the one connection of a pool with min_connections = 1 died
\* while leased and was returned; no creation was attempted after the first
C38_Witness ==
    /\ pool_state = "running" /\ ~shutdown_ /\ ~creation_failed
    /\ min_connections = 1
    /\ created = 1
    /\ Total = 0
    /\ connected = {}

\* ------------------------------------------------------------------- C39
\* the unit of work has committed or rolled back the transaction itself and
\* has returned: with_transaction is about to run its own txn.commit()
UnitFinalizedAndReturned ==
    /\ ProcessAlive
    /\ wt_pc = "commit"
    /\ Finalized(txn[1])

\* C39: after a unit of work that finalized the transaction itself and
\* returned, with_transaction goes on to its exit without an exception and
\* without sending a command
C39_SelfFinalizedUnit ==
    [][ (UnitFinalizedAndReturned /\ wt_pc' # wt_pc)
            => /\ wt_pc' = "exit"
               /\ wt_error' = "none"
               /\ sent' = NoCmd ]_vars

\* ------------------------------------------------------------------- C40
\* the parameters of the object whose direction is not out
NonOut == {i \in 1..Len(proc.params_) : proc.params_[i].direction # "out"}

\* C40: a call with k parameters that are not out has the placeholders
\* $1..$k in order and binds k values, so every placeholder has a value
C40_Placeholders ==
    proc.executed =>
        /\ proc.placeholders = [j \in 1..Cardinality(NonOut) |-> j]
        /\ Len(proc.values) = Cardinality(NonOut)
        /\ \A j \in 1..Len(proc.placeholders) :
               proc.placeholders[j] \in 1..Len(proc.values)

====
